---- MODULE Spec2Model ----
(***************************************************************************)
(* Model of the Cerberus sensitivity scan: the batch planners              *)
(* (automation/orchestrator.py, automation/run_plan.py,                    *)
(* automation/Automation.py), the scan state machine                       *)
(* CerberusOrchestrator.run_scan running inside the GUI worker thread      *)
(* (gui/app.py), and the retrying automation bridge                        *)
(* (automation/button_bridge_CSharp_to_py.py).                             *)
(***************************************************************************)
EXTENDS Integers, Sequences, FiniteSets, TLC

VARIABLES
    (* ---- planner study (pure functions applied to drawn inputs) ---- *)
    plan_pc,          \* "idle" | "input" | "planned"
    plan_engine,      \* "orchestrator" | "automation" | "engine" (an int is
                      \* handed to CerberusEngine) | "engine_default" (None is)
    plan_inputs,      \* SensitivityInputs / the ParameterGrid columns
    plan_capacity,    \* max_batch_size handed to the planner or the engine
    plan_result,      \* what the planner returned
    (* ---- scan state machine ---- *)
    pc,               \* position of the worker thread inside run_scan
    inputs,           \* SensitivityInputs built from the input rows
    start_index,      \* resume offset handed to run_scan
    cancel_event,     \* threading.Event shared with the GUI thread
    run_plan,         \* List[RunPlan]
    total_rows,       \* run_plan[-1].end_offset
    bi,               \* 1-based position of the for-loop over run_plan
    current_mode,     \* mode last configured ("" is None)
    parameter_value_cache, \* caption -> last loaded tuple (<<>> is "absent")
    table_len,        \* number of rows of the table collected for the batch
    idx,              \* enumerate() position inside the collected table
    new_rows_for_mode,\* global indices stored for the current batch
    rih_frames,       \* list of frames (each a sequence of global indices)
    pooh_frames,
    emitted,          \* every progress event handed to ProgressReporter.emit
    done_outputs,     \* the outputs payload of the done event
    ops,              \* operations performed on the external surface, in order
    hist,             \* observations about the run (cancel timing, batches)
    surface,          \* the value list resident in the application, per caption
    (* ---- one call of the automation bridge ---- *)
    br_pc,            \* "idle" | "called" | "run" | "parse" | "returned" | "raised"
    br_call,          \* the function called, its button_key, whether the exe exists
    br_attempt,       \* the attempt counter of _run_automation_command
    br_log,           \* every run of the external command and every sleep
    br_completed,     \* the CompletedProcess handed back to collect_table
    br_result,        \* what the call returned or raised
    (* ---- the grid-builder study ---- *)
    grid_pc,          \* "idle" | "input" | "built"
    grid_builder,     \* "from_rows" | "frame": which builder is applied
    grid_rows,        \* the input rows
    grid_permuted,    \* the same rows in another order
    grid_result,      \* the grid built from each of the two row lists
    (* ---- the skeleton's scans, one after the other ---- *)
    sk_pc,            \* where run_automation stands
    sk_scan,          \* how many scans have been started
    sk_inputs,        \* the grid of the current scan
    sk_start_index,   \* the start_index of the current scan
    sk_bi,            \* the batch being executed
    _VALUE_LIST_CACHE, \* Automation.py's module-level cache
    sk_surface,       \* the value list resident in the application, per key
    sk_hist,          \* the scan each cached tuple was loaded in; stale skips
    (* ---- the GUI and the workers it starts ---- *)
    gui_pc,           \* the Tk thread: "idle" | "draining" (in _process_queue)
    worker_thread,    \* CerberusApp.worker_thread: 0 (None) or a worker
    gui_workers,      \* per worker thread: where it stands, what it was given
    event_queue,      \* CerberusApp.event_queue
    gui_cancel_event, \* CerberusApp.cancel_event, shared by all workers
    controls_enabled, \* Run and Resume enabled, Stop disabled (or the reverse)
    results_data,     \* len(CerberusApp.results_data)
    gui_hist          \* events in emission order, events as handled, message

planVars == <<plan_pc, plan_engine, plan_inputs, plan_capacity, plan_result>>
scanVars == <<pc, inputs, start_index, cancel_event, run_plan, total_rows, bi,
              current_mode, parameter_value_cache, table_len, idx,
              new_rows_for_mode, rih_frames, pooh_frames, emitted,
              done_outputs, ops, hist, surface>>
bridgeVars == <<br_pc, br_call, br_attempt, br_log, br_completed, br_result>>
gridVars == <<grid_pc, grid_builder, grid_rows, grid_permuted, grid_result>>
skeletonVars == <<sk_pc, sk_scan, sk_inputs, sk_start_index, sk_bi, _VALUE_LIST_CACHE,
                  sk_surface, sk_hist>>
guiVars == <<gui_pc, worker_thread, gui_workers, event_queue, gui_cancel_event,
             controls_enabled, results_data, gui_hist>>
vars == <<planVars, scanVars, bridgeVars, gridVars, skeletonVars, guiVars>>

(***************************************************************************)
(* Program constants                                                       *)
(***************************************************************************)
MAX_ITERATIONS_PER_RUN == 200
DEFAULT_MAX_BATCH_SIZE == 200
RIH_MODE == "RIH"
POOH_MODE == "POOH"

(***************************************************************************)
(* Bounds of the model                                                     *)
(***************************************************************************)
MaxDensities == 1      \* small grids: 0..MaxDensities density values
MaxDepths == 2         \* small grids: 0..MaxDepths depth values
MaxFoe == 1            \* small grids: 0..MaxFoe force-on-end values per mode
ResumeWindow == 2      \* resume offsets drawn within this distance of a batch boundary
BigDensities == 67     \* the large grid: enough densities to force chunking
BigDepths == 3         \* the large grid: depth values
WideDensities == 15    \* planner study: density x foe alone above the limit
WideFoe == 14
ExactDensities == 100  \* planner study: two depths fill the limit exactly
MaxRows == 2
MaxScans == 2
MaxWorkers == 3
MaxGuiBatches == 1
MaxCapacity == 7       \* planner study: max_batch_size in 1..MaxCapacity
PlanMaxLen == 3        \* planner study: dimension sizes in 1..PlanMaxLen

(***************************************************************************)
(* Helpers                                                                 *)
(***************************************************************************)
Min(a, b) == IF a < b THEN a ELSE b
Max(a, b) == IF a > b THEN a ELSE b

\* the sorted, duplicate-free value list of a dimension with n values
Values(n) == [i \in 1..n |-> i]

RECURSIVE Flatten(_)
Flatten(ss) == IF ss = <<>> THEN <<>> ELSE Head(ss) \o Flatten(Tail(ss))

SeqToSet(s) == {s[i] : i \in 1..Len(s)}

(***************************************************************************)
(* automation/run_plan.py                                                  *)
(***************************************************************************)
end_offset(p) == p.offset + p.combo_count

\* [depths[i : i + chunk_size] for i in range(0, len(depths), chunk_size)]
chunk_depths(depths, chunk_size) ==
    LET n == Len(depths)
        k == (n + chunk_size - 1) \div chunk_size
    IN [c \in 1..k |->
          SubSeq(depths, (c - 1) * chunk_size + 1, Min(c * chunk_size, n))]

(***************************************************************************)
(* automation/orchestrator.py: the planner                                 *)
(***************************************************************************)
RECURSIVE ChunkLoop(_, _)
ChunkLoop(combos_per_depth, chunk) ==
    IF combos_per_depth * chunk > MAX_ITERATIONS_PER_RUN /\ chunk > 1
    THEN ChunkLoop(combos_per_depth, chunk - 1)
    ELSE chunk

\* faulty variant: the chunk is never reduced to fit the limit
_compute_depth_chunk_whole_list(depth_count, density_count, foe_count) ==
    depth_count

_compute_depth_chunk(depth_count, density_count, foe_count) ==
    IF depth_count = 0 THEN 0
    ELSE LET combos_per_depth == density_count * foe_count
         IN IF combos_per_depth = 0 THEN depth_count
            ELSE Max(1, ChunkLoop(combos_per_depth, depth_count))

foe_values_of(inp, mode) ==
    IF mode = "RIH" THEN inp.stretch_foe_rih ELSE inp.stretch_foe_pooh

\* faulty variant: the running offset is not advanced by the batch's combo_count
RECURSIVE ExtendLoop_offset_not_advanced(_, _, _, _, _, _)
ExtendLoop_offset_not_advanced(plan, offset, inp, mode, depth_chunks, index) ==
    IF index >= Len(depth_chunks) THEN [plan |-> plan, offset |-> offset]
    ELSE LET chunk == depth_chunks[index + 1]
             combo_count == Len(inp.pipe_fluid_densities)
                            * Len(foe_values_of(inp, mode)) * Len(chunk)
             item == [mode |-> mode,
                      depth_values |-> chunk,
                      include_pipe_density |-> (index = 0),
                      include_force_on_end |-> (index = 0),
                      combo_count |-> combo_count,
                      offset |-> offset]
         IN ExtendLoop_offset_not_advanced(Append(plan, item), offset, inp,
                                           mode, depth_chunks, index + 1)

\* faulty variant: every chunk asks for the density and force-on-end lists
RECURSIVE ExtendLoop_always_reloads(_, _, _, _, _, _)
ExtendLoop_always_reloads(plan, offset, inp, mode, depth_chunks, index) ==
    IF index >= Len(depth_chunks) THEN [plan |-> plan, offset |-> offset]
    ELSE LET chunk == depth_chunks[index + 1]
             combo_count == Len(inp.pipe_fluid_densities)
                            * Len(foe_values_of(inp, mode)) * Len(chunk)
             item == [mode |-> mode,
                      depth_values |-> chunk,
                      include_pipe_density |-> TRUE,
                      include_force_on_end |-> TRUE,
                      combo_count |-> combo_count,
                      offset |-> offset]
         IN ExtendLoop_always_reloads(Append(plan, item), offset + combo_count,
                                      inp, mode, depth_chunks, index + 1)

\* the for-loop of _extend_plan from chunk number `index` (0-based) on
RECURSIVE ExtendLoop(_, _, _, _, _, _)
ExtendLoop(plan, offset, inp, mode, depth_chunks, index) ==
    IF index >= Len(depth_chunks) THEN [plan |-> plan, offset |-> offset]
    ELSE LET chunk == depth_chunks[index + 1]
             combo_count == Len(inp.pipe_fluid_densities)
                            * Len(foe_values_of(inp, mode)) * Len(chunk)
             item == [mode |-> mode,
                      depth_values |-> chunk,
                      include_pipe_density |-> (index = 0),
                      include_force_on_end |-> (index = 0),
                      combo_count |-> combo_count,
                      offset |-> offset]
         IN ExtendLoop(Append(plan, item), offset + combo_count, inp, mode,
                       depth_chunks, index + 1)

_extend_plan(plan, offset, inp, mode) ==
    LET foe_values == foe_values_of(inp, mode)
        chunk_size == _compute_depth_chunk(Len(inp.depths),
                          Len(inp.pipe_fluid_densities), Len(foe_values))
        depth_chunks == IF inp.depths # <<>>
                        THEN chunk_depths(inp.depths, chunk_size) ELSE <<>>
    IN ExtendLoop(plan, offset, inp, mode, depth_chunks, 0)

\* faulty variant: POOH is planned before RIH
_build_run_plan_pooh_first(inp) ==
    LET s0 == [plan |-> <<>>, offset |-> 0]
        s1 == IF inp.pipe_fluid_densities # <<>> /\ inp.stretch_foe_pooh # <<>>
                 /\ inp.depths # <<>>
              THEN _extend_plan(s0.plan, s0.offset, inp, "POOH") ELSE s0
        s2 == IF inp.pipe_fluid_densities # <<>> /\ inp.stretch_foe_rih # <<>>
                 /\ inp.depths # <<>>
              THEN _extend_plan(s1.plan, s1.offset, inp, "RIH") ELSE s1
    IN s2.plan

_build_run_plan(inp) ==
    LET s0 == [plan |-> <<>>, offset |-> 0]
        s1 == IF inp.pipe_fluid_densities # <<>> /\ inp.stretch_foe_rih # <<>>
                 /\ inp.depths # <<>>
              THEN _extend_plan(s0.plan, s0.offset, inp, "RIH") ELSE s0
        s2 == IF inp.pipe_fluid_densities # <<>> /\ inp.stretch_foe_pooh # <<>>
                 /\ inp.depths # <<>>
              THEN _extend_plan(s1.plan, s1.offset, inp, "POOH") ELSE s1
    IN s2.plan

(***************************************************************************)
(* automation/Automation.py: the planner of the batching skeleton          *)
(***************************************************************************)
DimNames == <<"density", "depth", "wob">>

\* sorted(lengths.items(), key=lambda item: item[1], reverse=True): a stable
\* sort, so equal lengths keep the insertion order density, depth, wob
SortedByLengthDesc(lengths) ==
    LET Before(i, j) == \/ lengths[DimNames[i]] > lengths[DimNames[j]]
                        \/ /\ lengths[DimNames[i]] = lengths[DimNames[j]]
                           /\ i < j
        Rank(j) == Cardinality({i \in 1..Len(DimNames) : Before(i, j)})
    IN [r \in 1..Len(DimNames) |->
          DimNames[CHOOSE j \in 1..Len(DimNames) : Rank(j) = r - 1]]

RECURSIVE ProductOf(_, _)
ProductOf(chunk_sizes, names) ==
    IF names = {} THEN 1
    ELSE LET n == CHOOSE x \in names : TRUE
         IN chunk_sizes[n] * ProductOf(chunk_sizes, names \ {n})

\* the for-loop of _plan_chunk_sizes from position i of the sorted items
RECURSIVE PlanChunkLoop(_, _, _, _, _, _)
PlanChunkLoop(order, i, chunk_sizes, assigned, lengths, max_batch_size) ==
    IF i > Len(order) THEN [error |-> FALSE, chunk_sizes |-> chunk_sizes]
    ELSE LET name == order[i]
             length == lengths[name]
             product_assigned == ProductOf(chunk_sizes, assigned)
             allowed0 == IF product_assigned # 0
                         THEN max_batch_size \div product_assigned
                         ELSE max_batch_size
             allowed == IF allowed0 <= 0 THEN 1 ELSE allowed0
         IN IF length <= 0
            THEN [error |-> TRUE, chunk_sizes |-> chunk_sizes]
            ELSE PlanChunkLoop(order, i + 1,
                     [chunk_sizes EXCEPT ![name] = Min(length, allowed)],
                     assigned \cup {name}, lengths, max_batch_size)

_plan_chunk_sizes(lengths, max_batch_size) ==
    IF max_batch_size <= 0
    THEN [error |-> TRUE, chunk_sizes |-> [n \in SeqToSet(DimNames) |-> 1]]
    ELSE PlanChunkLoop(SortedByLengthDesc(lengths), 1,
                       [n \in SeqToSet(DimNames) |-> 1], {}, lengths,
                       max_batch_size)

\* faulty variant: the slices stop at the last full chunk, losing the remainder
_chunk_sequence_drops_tail(values, chunk_size) ==
    IF Len(values) <= chunk_size THEN <<values>>
    ELSE [c \in 1..(Len(values) \div chunk_size) |->
            SubSeq(values, (c - 1) * chunk_size + 1, c * chunk_size)]

_chunk_sequence(values, chunk_size) ==
    IF Len(values) <= chunk_size THEN <<values>>
    ELSE LET n == Len(values)
             k == (n + chunk_size - 1) \div chunk_size
         IN [c \in 1..k |->
               SubSeq(values, (c - 1) * chunk_size + 1, Min(c * chunk_size, n))]

\* itertools.product(density_values, depth_values, wob_values): the last
\* argument varies fastest
Product3(ds, zs, ws) ==
    LET nz == Len(zs)
        nw == Len(ws)
    IN [i \in 1..(Len(ds) * nz * nw) |->
          [density |-> ds[((i - 1) \div (nz * nw)) + 1],
           depth   |-> zs[(((i - 1) \div nw) % nz) + 1],
           wob     |-> ws[((i - 1) % nw) + 1]]]

\* grid is [densities, depths, wobs]
_generate_batches_from_grid(grid, max_batch_size) ==
    IF Len(grid.densities) * Len(grid.depths) * Len(grid.wobs) = 0
    THEN [error |-> FALSE, batches |-> <<>>]
    ELSE LET lengths == [n \in SeqToSet(DimNames) |->
                            IF n = "density" THEN Len(grid.densities)
                            ELSE IF n = "depth" THEN Len(grid.depths)
                            ELSE Len(grid.wobs)]
             sizes == _plan_chunk_sizes(lengths, max_batch_size)
             density_chunks == _chunk_sequence(grid.densities,
                                               sizes.chunk_sizes["density"])
             depth_chunks == _chunk_sequence(grid.depths,
                                             sizes.chunk_sizes["depth"])
             wob_chunks == _chunk_sequence(grid.wobs, sizes.chunk_sizes["wob"])
             nz == Len(depth_chunks)
             nw == Len(wob_chunks)
         IN IF sizes.error THEN [error |-> TRUE, batches |-> <<>>]
            ELSE [error |-> FALSE,
                  batches |->
                    [b \in 1..(Len(density_chunks) * nz * nw) |->
                       LET dv == density_chunks[((b - 1) \div (nz * nw)) + 1]
                           zv == depth_chunks[(((b - 1) \div nw) % nz) + 1]
                           wv == wob_chunks[((b - 1) % nw) + 1]
                       IN [parameters |-> [density |-> dv, depth |-> zv,
                                            wob |-> wv],
                           combinations |-> Product3(dv, zv, wv)]]]

\* _unique_non_null raises ValueError for a column without any valid value
_build_parameter_grid(inp, mode) ==
    LET wobs == foe_values_of(inp, mode)
    IN [error |-> (inp.pipe_fluid_densities = <<>> \/ inp.depths = <<>>
                   \/ wobs = <<>>),
        densities |-> inp.pipe_fluid_densities,
        depths |-> inp.depths,
        wobs |-> wobs]

\* run_rih / run_pooh
run_mode(inp, mode, max_batch_size) ==
    LET grid == _build_parameter_grid(inp, mode)
    IN IF grid.error THEN [error |-> TRUE, batches |-> <<>>]
       ELSE _generate_batches_from_grid(grid, max_batch_size)


(***************************************************************************)
(* Planner study: the planners applied to drawn inputs                     *)
(***************************************************************************)
MakeInputs(nDen, nDepth, nRih, nPooh) ==
    [pipe_fluid_densities |-> Values(nDen),
     depths |-> Values(nDepth),
     stretch_foe_rih |-> Values(nRih),
     stretch_foe_pooh |-> Values(nPooh)]

NoInputs == MakeInputs(0, 0, 0, 0)
NoPlanResult == [run_plan |-> <<>>,
                 RIH |-> [error |-> FALSE, batches |-> <<>>],
                 POOH |-> [error |-> FALSE, batches |-> <<>>],
                 max_batch_size |-> 0]

\* the grid of the worked example: three densities, two depths, two RIH
\* force-on-end values, no POOH value (lists as from_rows sorts them)
ScenarioInputs ==
    [pipe_fluid_densities |-> <<8, 10, 12>>,
     depths |-> <<3500, 4000>>,
     stretch_foe_rih |-> <<-1500, 0>>,
     stretch_foe_pooh |-> <<>>]

OrchestratorPlanInputs ==
    { MakeInputs(d, z, r, p) :
        d \in (0..PlanMaxLen) \cup {WideDensities, BigDensities,
                                    ExactDensities},
        z \in 0..PlanMaxLen,
        r \in (0..1) \cup {WideFoe},
        p \in 0..1 }
    \cup {ScenarioInputs}

AutomationPlanInputs ==
    { MakeInputs(d, z, r, p) :
        d \in 0..PlanMaxLen, z \in 0..PlanMaxLen, r \in 0..PlanMaxLen,
        p \in 0..1 }

\* the grids handed to CerberusEngine
EnginePlanInputs ==
    { MakeInputs(d, z, r, p) :
        d \in 1..PlanMaxLen, z \in 1..PlanMaxLen, r \in 0..1, p \in 0..1 }
    \cup {ScenarioInputs}

\* the captions of the parameter matrix rows (_PARAMETER_ROW_SELECTORS)
SurfaceKeys ==
    {"BHA Depth", "Pipe Fluid Density", "Force on End - RIH",
     "Force on End - POOH"}

\* what a value list of the application may hold before the scan loads it
\* (the lists saved in the template, or left by an earlier session): one
\* item, which a single Delete removes, or more; 0 is a value no grid of
\* the model uses
TemplateLists == { <<0>>, <<0, 0>> }

\* what has been observed of a run that has not started: where the flag was
\* set, the batches started, the tables read, where a step failed, the list
\* the template put into every value list
NoHistory ==
    [cancel_set |-> FALSE, cancel_bi |-> 0, cancel_pc |-> "",
     started |-> {}, collected |-> <<>>,
     failed |-> FALSE, fail_bi |-> 0, fail_pc |-> "",
     fail_ops |-> 0, fail_emitted |-> 0, template |-> <<>>]

ScanIdle ==
    /\ pc = "idle"
    /\ inputs = NoInputs
    /\ start_index = 0
    /\ cancel_event = FALSE
    /\ run_plan = <<>>
    /\ total_rows = 0
    /\ bi = 1
    /\ current_mode = ""
    /\ parameter_value_cache = [k \in {"BHA Depth", "Pipe Fluid Density"} |-> <<>>]
    /\ table_len = 0
    /\ idx = 0
    /\ new_rows_for_mode = <<>>
    /\ rih_frames = <<>>
    /\ pooh_frames = <<>>
    /\ emitted = <<>>
    /\ done_outputs = [RIH |-> <<>>, POOH |-> <<>>]
    /\ ops = <<>>
    /\ hist = NoHistory
    /\ surface = [k \in SurfaceKeys |-> <<>>]

\* no value: nothing returned, nothing raised, no process completed
NoBridgeValue == [kind |-> "none"]

BridgeIdle ==
    /\ br_pc = "idle"
    /\ br_call = [fn |-> "", button_key |-> "", exe_exists |-> TRUE]
    /\ br_attempt = 0
    /\ br_log = <<>>
    /\ br_completed = NoBridgeValue
    /\ br_result = NoBridgeValue

CacheKeys == {"depth", "density", "wob_RIH", "wob_POOH"}

\* the grids of the successive scans; one of them has no POOH value
SkeletonInputs ==
    { MakeInputs(d, z, 1, p) : d \in 1..2, z \in 1..2, p \in 0..1 }

\* run_automation lines 141-142 and 149-169: the RIH batches, then the POOH
\* batches; planning raises as soon as run_rih or run_pooh does
planned_batches(inp) ==
    LET rih == run_mode(inp, "RIH", DEFAULT_MAX_BATCH_SIZE)
        pooh == run_mode(inp, "POOH", DEFAULT_MAX_BATCH_SIZE)
        Tag(bs, mode) ==
            [i \in 1..Len(bs) |-> [mode |-> mode, parameters |-> bs[i].parameters]]
    IN [error |-> rih.error \/ pooh.error,
        batches |-> Tag(rih.batches, "RIH") \o Tag(pooh.batches, "POOH")]

\* _update_parameter_matrix line 298
wob_key(mode) == IF mode = "RIH" THEN "wob_RIH" ELSE "wob_POOH"

\* _count_samples and _iterate_combos of engine.py: the combinations of a
\* batch, and the index one past the last combination of batch k
sk_combination_count(b) ==
    Len(b.parameters.density) * Len(b.parameters.depth) * Len(b.parameters.wob)

RECURSIVE sk_end_offset(_, _)
sk_end_offset(batches, k) ==
    IF k = 0 THEN 0
    ELSE sk_end_offset(batches, k - 1) + sk_combination_count(batches[k])

\* the start_index the GUI hands over: Run, or Resume after the rows of the
\* first batch
SkeletonStartIndexes(inp) ==
    LET plan == planned_batches(inp)
    IN IF plan.error \/ plan.batches = <<>> THEN {0}
       ELSE {0, sk_end_offset(plan.batches, 1)}

\* the scan each cached tuple was loaded in, the loads skipped because of an
\* earlier scan, the indexes of the rows the current scan has emitted
NoSkeletonHistory ==
    [loaded_in |-> [k \in CacheKeys |-> 0], stale_skips |-> {}, rows |-> {}]

SkeletonIdle ==
    /\ sk_pc = "unused"
    /\ sk_scan = 0
    /\ sk_inputs = NoInputs
    /\ sk_start_index = 0
    /\ sk_bi = 1
    /\ _VALUE_LIST_CACHE = [k \in CacheKeys |-> <<>>]
    /\ sk_surface = [k \in CacheKeys |-> <<>>]
    /\ sk_hist = NoSkeletonHistory

WorkerIds == 1..MaxWorkers

\* what _collect_inputs may find in the input tree when a button is pressed:
\* no row, rows without a valid combination, rows giving MaxGuiBatches
\* batches
GuiInputs ==
    {[rows |-> 0, total |-> 0]}
    \cup { [rows |-> 1, total |-> t] : t \in {0, MaxGuiBatches} }

Unborn == [pc |-> "unborn", start_index |-> 0, total |-> 0, bi |-> 1]

Dead == [pc |-> "dead", start_index |-> 0, total |-> 0, bi |-> 1]

\* what has been observed of the event queue: the events emitted and not yet
\* handled, in emission order; whether every poll so far handled exactly
\* the oldest of them, oldest first
NoGuiHistory == [pending |-> <<>>, in_order |-> TRUE]

GuiIdle ==
    /\ gui_pc = "unused"
    /\ worker_thread = 0
    /\ gui_workers = [w \in WorkerIds |-> Unborn]
    /\ event_queue = <<>>
    /\ gui_cancel_event = FALSE
    /\ controls_enabled = TRUE
    /\ results_data = 0
    /\ gui_hist = NoGuiHistory

NoGrid == [error |-> FALSE, pipe_fluid_density |-> <<>>, depth |-> <<>>]

GridIdle ==
    /\ grid_pc = "idle"
    /\ grid_builder = ""
    /\ grid_rows = <<>>
    /\ grid_permuted = <<>>
    /\ grid_result = [rows |-> NoGrid, permuted |-> NoGrid]

PlanIdle ==
    /\ plan_pc = "idle"
    /\ plan_engine = ""
    /\ plan_inputs = NoInputs
    /\ plan_capacity = 0
    /\ plan_result = NoPlanResult

InitPlan ==
    /\ GuiIdle
    /\ SkeletonIdle
    /\ GridIdle
    /\ ScanIdle
    /\ BridgeIdle
    /\ plan_pc = "input"
    /\ plan_result = NoPlanResult
    /\ \/ /\ plan_engine = "orchestrator"
          /\ plan_inputs \in OrchestratorPlanInputs
          /\ plan_capacity = MAX_ITERATIONS_PER_RUN
       \/ /\ plan_engine = "automation"
          /\ plan_inputs \in AutomationPlanInputs
          /\ plan_capacity \in 0..MaxCapacity
       \/ /\ plan_engine = "engine"
          /\ plan_inputs \in EnginePlanInputs
          /\ plan_capacity \in (-1)..MaxCapacity
       \/ /\ plan_engine = "engine_default"
          /\ plan_inputs \in EnginePlanInputs
          /\ plan_capacity = 0

\* CerberusOrchestrator._build_run_plan applied to the inputs
PlanOrchestrator ==
    /\ plan_pc = "input"
    /\ plan_engine = "orchestrator"
    /\ plan_result' = [NoPlanResult EXCEPT !.run_plan = _build_run_plan(plan_inputs)]
    /\ plan_pc' = "planned"
    /\ UNCHANGED <<plan_engine, plan_inputs, plan_capacity, scanVars,
                   bridgeVars, gridVars, skeletonVars, guiVars>>

\* run_rih and run_pooh (the planning half of run_automation)
PlanAutomation ==
    /\ plan_pc = "input"
    /\ plan_engine = "automation"
    /\ plan_result' = [NoPlanResult EXCEPT
                         !.RIH = run_mode(plan_inputs, "RIH", plan_capacity),
                         !.POOH = run_mode(plan_inputs, "POOH", plan_capacity),
                         !.max_batch_size = plan_capacity]
    /\ plan_pc' = "planned"
    /\ UNCHANGED <<plan_engine, plan_inputs, plan_capacity, scanVars,
                   bridgeVars, gridVars, skeletonVars, guiVars>>

\* CerberusEngine.__init__ line 24: max_batch_size or DEFAULT_MAX_BATCH_SIZE
\* (None and 0 are both falsy)
CerberusEngine_init(given, max_batch_size) ==
    IF ~given \/ max_batch_size = 0 THEN DEFAULT_MAX_BATCH_SIZE
    ELSE max_batch_size

\* CerberusEngine.run_scan line 37 and run_automation lines 141-142: the
\* engine's capacity is handed to run_rih and run_pooh
PlanEngine ==
    /\ plan_pc = "input"
    /\ plan_engine \in {"engine", "engine_default"}
    /\ LET size == CerberusEngine_init(plan_engine = "engine", plan_capacity)
       IN plan_result' = [NoPlanResult EXCEPT
                            !.RIH = run_mode(plan_inputs, "RIH", size),
                            !.POOH = run_mode(plan_inputs, "POOH", size),
                            !.max_batch_size = size]
    /\ plan_pc' = "planned"
    /\ UNCHANGED <<plan_engine, plan_inputs, plan_capacity, scanVars,
                   bridgeVars, gridVars, skeletonVars, guiVars>>

NextPlan == PlanOrchestrator \/ PlanAutomation \/ PlanEngine

SpecPlan == InitPlan /\ [][NextPlan]_vars


(***************************************************************************)
(* The scan: CerberusOrchestrator.run_scan inside the GUI worker thread    *)
(***************************************************************************)
Event(type, index, mode) == [type |-> type, index |-> index, mode |-> mode]

Op(name, batch) == [op |-> name, key |-> "", values |-> <<>>, bi |-> batch]
LoadOp(caption, values, batch) ==
    [op |-> "load", key |-> caption, values |-> values, bi |-> batch]

\* the grids entered in the GUI: the small ones and one large enough to be
\* cut into several depth chunks
ScanInputs ==
    { MakeInputs(d, z, r, p) :
        d \in {0, MaxDensities}, z \in {0, 1, MaxDepths},
        r \in {0, MaxFoe}, p \in {0, MaxFoe} }
    \cup { MakeInputs(BigDensities, BigDepths, 1, 0) }

\* resume offsets tried for a plan: those near 0 and near a batch boundary
StartIndexes(plan) ==
    LET total == IF plan = <<>> THEN 0 ELSE end_offset(plan[Len(plan)])
        Near(i, b) == i - b <= ResumeWindow /\ b - i <= ResumeWindow
    IN { i \in 0..(total + 1) :
           \/ Near(i, 0)
           \/ \E k \in 1..Len(plan) : Near(i, end_offset(plan[k])) }

\* the row counts the external grid may hold when it is read
TableLens(combo_count) ==
    { n \in {0, combo_count - 1, combo_count, combo_count + 1} : n >= 0 }

Init ==
    /\ GuiIdle
    /\ SkeletonIdle
    /\ GridIdle
    /\ PlanIdle
    /\ BridgeIdle
    /\ pc = "idle"
    /\ inputs \in ScanInputs
    /\ start_index = 0
    /\ cancel_event = FALSE
    /\ run_plan = <<>>
    /\ total_rows = 0
    /\ bi = 1
    /\ current_mode = ""
    /\ parameter_value_cache = [k \in {"BHA Depth", "Pipe Fluid Density"} |-> <<>>]
    /\ table_len = 0
    /\ idx = 0
    /\ new_rows_for_mode = <<>>
    /\ rih_frames = <<>>
    /\ pooh_frames = <<>>
    /\ emitted = <<>>
    /\ done_outputs = [RIH |-> <<>>, POOH |-> <<>>]
    /\ ops = <<>>
    /\ hist = NoHistory
    /\ \E l \in TemplateLists : surface = [k \in SurfaceKeys |-> l]

\* pcs at which the worker thread is alive
WorkerAlive == pc \notin {"idle", "exited"}

\* CerberusApp._start_worker: clears the cancel flag and starts the worker
StartWorker ==
    /\ pc = "idle"
    /\ \E s \in StartIndexes(_build_run_plan(inputs)) : start_index' = s
    /\ cancel_event' = FALSE
    /\ pc' = "begin"
    /\ UNCHANGED <<inputs, run_plan, total_rows, bi, current_mode,
                   parameter_value_cache, table_len, idx, new_rows_for_mode,
                   rih_frames, pooh_frames, emitted, done_outputs, ops, hist,
                   surface,
                   planVars, bridgeVars, gridVars, skeletonVars, guiVars>>

\* CerberusApp._stop: sets the flag while the worker is alive
Stop ==
    /\ WorkerAlive
    /\ ~cancel_event
    /\ cancel_event' = TRUE
    /\ hist' = [hist EXCEPT !.cancel_set = TRUE, !.cancel_bi = bi,
                            !.cancel_pc = pc]
    /\ UNCHANGED <<pc, inputs, start_index, run_plan, total_rows, bi,
                   current_mode, parameter_value_cache, table_len, idx,
                   new_rows_for_mode, rih_frames, pooh_frames, emitted,
                   done_outputs, ops, surface,
                   planVars, bridgeVars, gridVars, skeletonVars, guiVars>>

\* faulty variant: a resume at exactly the row count is not taken as a no-op
ResumeIsNoop_strict(start, total) == start > total

\* run_scan line 85: the no-op resume test
ResumeIsNoop(start, total) == start >= total

\* faulty variant: init is emitted before the plan is looked at
RunScanBegin_init_before_plan ==
    /\ pc = "begin"
    /\ LET plan == _build_run_plan(inputs)
       IN /\ run_plan' = plan
          /\ emitted' = Append(emitted, Event("init", 0, ""))
          /\ pc' = IF plan = <<>> THEN "raised" ELSE "setup"
    /\ UNCHANGED <<inputs, start_index, cancel_event, total_rows, bi,
                   current_mode, parameter_value_cache, table_len, idx,
                   new_rows_for_mode, rih_frames, pooh_frames, done_outputs,
                   ops, hist, surface,
                   planVars, bridgeVars, gridVars, skeletonVars, guiVars>>

\* run_scan lines 76-95: build the plan, raise when it is empty, emit init
\* (and done at once for a no-op resume)
RunScanBegin ==
    /\ pc = "begin"
    /\ LET plan == _build_run_plan(inputs)
           total == end_offset(plan[Len(plan)])
       IN /\ run_plan' = plan
          /\ IF plan = <<>>
             THEN /\ pc' = "raised"
                  /\ UNCHANGED <<total_rows, emitted>>
             ELSE /\ total_rows' = total
                  /\ IF ResumeIsNoop(start_index, total)
                     THEN /\ emitted' = emitted \o
                                <<Event("init", total, ""), Event("done", -1, "")>>
                          /\ pc' = "exited"
                     ELSE /\ emitted' = Append(emitted, Event("init", total, ""))
                          /\ pc' = "setup"
    /\ UNCHANGED <<inputs, start_index, cancel_event, bi, current_mode,
                   parameter_value_cache, table_len, idx, new_rows_for_mode,
                   rih_frames, pooh_frames, done_outputs, ops, hist, surface,
                   planVars, bridgeVars, gridVars, skeletonVars, guiVars>>

\* faulty variant: the workspace is opened but the template is not loaded
Setup_without_template ==
    /\ pc = "setup"
    /\ ops' = Append(ops, Op("open_sensitivity_analysis", 0))
    /\ pc' = "loop"
    /\ UNCHANGED <<inputs, start_index, cancel_event, run_plan, total_rows, bi,
                   current_mode, parameter_value_cache, table_len, idx,
                   new_rows_for_mode, rih_frames, pooh_frames, emitted,
                   done_outputs, hist, surface,
                   planVars, bridgeVars, gridVars, skeletonVars, guiVars>>

\* run_scan lines 96-97: _open_sensitivity_analysis, _load_template
Setup ==
    /\ pc = "setup"
    /\ ops' = ops \o <<Op("open_sensitivity_analysis", 0), Op("load_template", 0)>>
    /\ \E l \in TemplateLists :
          /\ surface' = [k \in SurfaceKeys |-> l]
          /\ hist' = [hist EXCEPT !.template = l]
    /\ pc' = "loop"
    /\ UNCHANGED <<inputs, start_index, cancel_event, run_plan, total_rows, bi,
                   current_mode, parameter_value_cache, table_len, idx,
                   new_rows_for_mode, rih_frames, pooh_frames, emitted,
                   done_outputs, planVars, bridgeVars, gridVars, skeletonVars, guiVars>>

\* faulty variant: the head of the loop does not look at the cancellation flag
LoopDecision_ignores_cancel(plan, b, cancel, start) ==
    IF b > Len(plan) THEN "exhausted"
    ELSE IF start >= end_offset(plan[b]) THEN "continue"
    ELSE "run"

\* run_scan lines 101-105: what the head of the for-loop does with batch b
LoopDecision(plan, b, cancel, start) ==
    IF b > Len(plan) THEN "exhausted"
    ELSE IF cancel THEN "break"
    ELSE IF start >= end_offset(plan[b]) THEN "continue"
    ELSE "run"

\* the for-loop is exhausted, or left by the break of line 103
LoopExit ==
    /\ pc = "loop"
    /\ LoopDecision(run_plan, bi, cancel_event, start_index) \in {"exhausted", "break"}
    /\ pc' = "finish"
    /\ UNCHANGED <<inputs, start_index, cancel_event, run_plan, total_rows, bi,
                   current_mode, parameter_value_cache, table_len, idx,
                   new_rows_for_mode, rih_frames, pooh_frames, emitted,
                   done_outputs, ops, hist, surface,
                   planVars, bridgeVars, gridVars, skeletonVars, guiVars>>

\* line 105: a batch wholly before start_index is passed over
LoopSkip ==
    /\ pc = "loop"
    /\ LoopDecision(run_plan, bi, cancel_event, start_index) = "continue"
    /\ bi' = bi + 1
    /\ UNCHANGED <<pc, inputs, start_index, cancel_event, run_plan, total_rows,
                   current_mode, parameter_value_cache, table_len, idx,
                   new_rows_for_mode, rih_frames, pooh_frames, emitted,
                   done_outputs, ops, hist, surface,
                   planVars, bridgeVars, gridVars, skeletonVars, guiVars>>

\* faulty variant: the mode is configured again for every batch
NeedsModeConfiguration_always(mode, current) == TRUE

\* run_scan line 107: the mode is configured only when it changes
NeedsModeConfiguration(mode, current) == mode # current

\* lines 104-107: the batch is neither cancelled nor skipped, so it starts
BatchBegin ==
    /\ pc = "loop"
    /\ LoopDecision(run_plan, bi, cancel_event, start_index) = "run"
    /\ hist' = [hist EXCEPT !.started = @ \cup {bi}]
    /\ pc' = IF NeedsModeConfiguration(run_plan[bi].mode, current_mode)
             THEN "configure" ELSE "open_matrix"
    /\ UNCHANGED <<inputs, start_index, cancel_event, run_plan, total_rows, bi,
                   current_mode, parameter_value_cache, table_len, idx,
                   new_rows_for_mode, rih_frames, pooh_frames, emitted,
                   done_outputs, ops, surface,
                   planVars, bridgeVars, gridVars, skeletonVars, guiVars>>

\* lines 107-110: _configure_parameters_for_mode, _configure_outputs_for_mode
ConfigureMode ==
    /\ pc = "configure"
    /\ ops' = ops \o <<Op("configure_parameters_for_mode", bi),
                       Op("configure_outputs_for_mode", bi)>>
    /\ current_mode' = run_plan[bi].mode
    /\ pc' = "open_matrix"
    /\ UNCHANGED <<inputs, start_index, cancel_event, run_plan, total_rows, bi,
                   parameter_value_cache, table_len, idx, new_rows_for_mode,
                   rih_frames, pooh_frames, emitted, done_outputs, hist,
                   surface,
                   planVars, bridgeVars, gridVars, skeletonVars, guiVars>>

\* line 112: _open_parameter_matrix
OpenMatrix ==
    /\ pc = "open_matrix"
    /\ ops' = Append(ops, Op("open_parameter_matrix", bi))
    /\ pc' = "depth"
    /\ UNCHANGED <<inputs, start_index, cancel_event, run_plan, total_rows, bi,
                   current_mode, parameter_value_cache, table_len, idx,
                   new_rows_for_mode, rih_frames, pooh_frames, emitted,
                   done_outputs, hist, surface,
                   planVars, bridgeVars, gridVars, skeletonVars, guiVars>>

\* _update_parameter_values: does the call reach the external surface?
\* (an empty sequence returns early; so does a cached, unchanged tuple)
UpdateTouchesSurface(caption, values, use_cache, cache) ==
    /\ values # <<>>
    /\ ~(use_cache /\ cache[caption] = values)

\* _update_parameter_values: the cache after the call
UpdatedCache(caption, values, use_cache, cache) ==
    IF ~use_cache THEN cache
    ELSE IF values = <<>> THEN [cache EXCEPT ![caption] = <<>>]
    ELSE [cache EXCEPT ![caption] = values]

\* _update_parameter_values: select the row, clear, add each value, OK
UpdatedOps(caption, values, use_cache, cache, log, b) ==
    IF UpdateTouchesSurface(caption, values, use_cache, cache)
    THEN Append(log, LoadOp(caption, values, b))
    ELSE log

\* _clear_value_list lines 334-347 with max_attempts = 1: item 0 is selected
\* and Delete is pressed once; one press removes one item (Clear_Value_List
\* of button_repository.py presses it once per item to empty the list)
_clear_value_list(list) == IF list = <<>> THEN <<>> ELSE Tail(list)

\* _update_parameter_values lines 305-320: clear, then Set_Value and Add for
\* each value, then OK
LoadedList(list, values) == _clear_value_list(list) \o values

\* _update_parameter_values: the value lists of the application after the call
UpdatedSurface(caption, values, use_cache, cache, surf) ==
    IF UpdateTouchesSurface(caption, values, use_cache, cache)
    THEN [surf EXCEPT ![caption] = LoadedList(@, values)]
    ELSE surf

\* the lists the application may be left with when one of the bridge calls
\* of _update_parameter_values fails: nothing changed yet, or the list
\* cleared and the first k values added
PartialLists(list, values) ==
    {list} \cup { _clear_value_list(list) \o SubSeq(values, 1, k) :
                     k \in 0..Len(values) }

\* line 114: the depth slice is always handed over, through the cache
UpdateDepth ==
    /\ pc = "depth"
    /\ ops' = UpdatedOps("BHA Depth", run_plan[bi].depth_values, TRUE,
                         parameter_value_cache, ops, bi)
    /\ parameter_value_cache' = UpdatedCache("BHA Depth",
                                    run_plan[bi].depth_values, TRUE,
                                    parameter_value_cache)
    /\ surface' = UpdatedSurface("BHA Depth", run_plan[bi].depth_values, TRUE,
                                 parameter_value_cache, surface)
    /\ pc' = "density"
    /\ UNCHANGED <<inputs, start_index, cancel_event, run_plan, total_rows, bi,
                   current_mode, table_len, idx, new_rows_for_mode, rih_frames,
                   pooh_frames, emitted, done_outputs, hist, planVars,
                   bridgeVars, gridVars, skeletonVars, guiVars>>

\* lines 115-118: densities, only when the plan asks for them
UpdateDensity ==
    /\ pc = "density"
    /\ IF run_plan[bi].include_pipe_density
       THEN /\ ops' = UpdatedOps("Pipe Fluid Density",
                                 inputs.pipe_fluid_densities, TRUE,
                                 parameter_value_cache, ops, bi)
            /\ parameter_value_cache' = UpdatedCache("Pipe Fluid Density",
                                            inputs.pipe_fluid_densities, TRUE,
                                            parameter_value_cache)
            /\ surface' = UpdatedSurface("Pipe Fluid Density",
                                         inputs.pipe_fluid_densities, TRUE,
                                         parameter_value_cache, surface)
       ELSE UNCHANGED <<ops, parameter_value_cache, surface>>
    /\ pc' = "foe"
    /\ UNCHANGED <<inputs, start_index, cancel_event, run_plan, total_rows, bi,
                   current_mode, table_len, idx, new_rows_for_mode, rih_frames,
                   pooh_frames, emitted, done_outputs, hist, planVars,
                   bridgeVars, gridVars, skeletonVars, guiVars>>

foe_caption(mode) ==
    IF mode = "RIH" THEN "Force on End - RIH" ELSE "Force on End - POOH"

\* lines 119-123: force on end, only when the plan asks for it, never cached
UpdateFoe ==
    /\ pc = "foe"
    /\ IF run_plan[bi].include_force_on_end
       THEN /\ ops' = UpdatedOps(foe_caption(run_plan[bi].mode),
                                 foe_values_of(inputs, run_plan[bi].mode),
                                 FALSE, parameter_value_cache, ops, bi)
            /\ surface' = UpdatedSurface(foe_caption(run_plan[bi].mode),
                                 foe_values_of(inputs, run_plan[bi].mode),
                                 FALSE, parameter_value_cache, surface)
       ELSE UNCHANGED <<ops, surface>>
    /\ pc' = "close_matrix"
    /\ UNCHANGED <<inputs, start_index, cancel_event, run_plan, total_rows, bi,
                   current_mode, parameter_value_cache, table_len, idx,
                   new_rows_for_mode, rih_frames, pooh_frames, emitted,
                   done_outputs, hist, planVars, bridgeVars, gridVars, skeletonVars, guiVars>>

\* line 124: _close_parameter_matrix
CloseMatrix ==
    /\ pc = "close_matrix"
    /\ ops' = Append(ops, Op("close_parameter_matrix", bi))
    /\ pc' = "calc"
    /\ UNCHANGED <<inputs, start_index, cancel_event, run_plan, total_rows, bi,
                   current_mode, parameter_value_cache, table_len, idx,
                   new_rows_for_mode, rih_frames, pooh_frames, emitted,
                   done_outputs, hist, surface,
                   planVars, bridgeVars, gridVars, skeletonVars, guiVars>>

\* faulty variant: the flag is looked at once the calculation is triggered
Calculate_checks_cancel ==
    /\ pc = "calc"
    /\ ops' = Append(ops, Op("calculate", bi))
    /\ pc' = IF cancel_event THEN "finish" ELSE "collect"
    /\ UNCHANGED <<inputs, start_index, cancel_event, run_plan, total_rows, bi,
                   current_mode, parameter_value_cache, table_len, idx,
                   new_rows_for_mode, rih_frames, pooh_frames, emitted,
                   done_outputs, hist, surface,
                   planVars, bridgeVars, gridVars, skeletonVars, guiVars>>

\* _recalc_and_collect_table line 351: Sensitivity_Analysis_Calculate
Calculate ==
    /\ pc = "calc"
    /\ ops' = Append(ops, Op("calculate", bi))
    /\ pc' = "collect"
    /\ UNCHANGED <<inputs, start_index, cancel_event, run_plan, total_rows, bi,
                   current_mode, parameter_value_cache, table_len, idx,
                   new_rows_for_mode, rih_frames, pooh_frames, emitted,
                   done_outputs, hist, surface,
                   planVars, bridgeVars, gridVars, skeletonVars, guiVars>>

\* the failure recorded when the step at pc raises, the log of operations
\* then holding n_ops entries
Failed(h, n_ops) ==
    [h EXCEPT !.failed = TRUE, !.fail_bi = bi, !.fail_pc = pc,
              !.fail_ops = n_ops, !.fail_emitted = Len(emitted)]

\* faulty variant: an empty table is handed on to the row loop
CollectOutcome_accepts_empty(n) == "rows"

\* _recalc_and_collect_table lines 354-356: an empty table raises
CollectOutcome(n) == IF n = 0 THEN "raised" ELSE "rows"

\* _recalc_and_collect_table lines 353-356 and run_scan lines 126-128: the
\* grid is read; an empty table raises RuntimeError
Collect ==
    /\ pc = "collect"
    /\ ops' = Append(ops, Op("collect_table", bi))
    /\ \E n \in TableLens(run_plan[bi].combo_count) :
         /\ table_len' = n
         /\ LET h == [hist EXCEPT !.collected = Append(@, [bi |-> bi, len |-> n])]
            IN hist' = IF CollectOutcome(n) = "raised"
                       THEN Failed(h, Len(ops) + 1) ELSE h
         /\ pc' = CollectOutcome(n)
    /\ idx' = 0
    /\ new_rows_for_mode' = <<>>
    /\ UNCHANGED <<inputs, start_index, cancel_event, run_plan, total_rows, bi,
                   current_mode, parameter_value_cache, rih_frames,
                   pooh_frames, emitted, done_outputs, surface,
                   planVars, bridgeVars, gridVars, skeletonVars, guiVars>>

\* faulty variant: the row at the resume offset itself is skipped
RowDecision_skips_resume_row(global_index, start, cancel) ==
    IF global_index <= start THEN "continue"
    ELSE IF cancel THEN "break"
    ELSE "emit"

\* run_scan lines 129-134: what the row loop does with the row at global_index
RowDecision(global_index, start, cancel) ==
    IF global_index < start THEN "continue"
    ELSE IF cancel THEN "break"
    ELSE "emit"

\* lines 129-138: one iteration of the loop over the collected rows
RowStep ==
    /\ pc = "rows"
    /\ idx < table_len
    /\ LET global_index == run_plan[bi].offset + idx
           d == RowDecision(global_index, start_index, cancel_event)
       IN \/ /\ d = "continue"
             /\ idx' = idx + 1
             /\ UNCHANGED <<pc, emitted, new_rows_for_mode>>
          \/ /\ d = "break"
             /\ pc' = "after_rows"
             /\ UNCHANGED <<idx, emitted, new_rows_for_mode>>
          \/ /\ d = "emit"
             /\ emitted' = Append(emitted,
                                  Event("row", global_index, run_plan[bi].mode))
             /\ new_rows_for_mode' = Append(new_rows_for_mode, global_index)
             /\ idx' = idx + 1
             /\ UNCHANGED pc
    /\ UNCHANGED <<inputs, start_index, cancel_event, run_plan, total_rows, bi,
                   current_mode, parameter_value_cache, table_len, rih_frames,
                   pooh_frames, done_outputs, ops, hist, surface,
                   planVars, bridgeVars, gridVars, skeletonVars, guiVars>>

\* the loop over the collected rows is exhausted
RowsExhausted ==
    /\ pc = "rows"
    /\ idx >= table_len
    /\ pc' = "after_rows"
    /\ UNCHANGED <<inputs, start_index, cancel_event, run_plan, total_rows, bi,
                   current_mode, parameter_value_cache, table_len, idx,
                   new_rows_for_mode, rih_frames, pooh_frames, emitted,
                   done_outputs, ops, hist, surface,
                   planVars, bridgeVars, gridVars, skeletonVars, guiVars>>

\* lines 139-146: break when cancelled, else keep the batch's rows as a frame
AfterRows ==
    /\ pc = "after_rows"
    /\ IF cancel_event
       THEN /\ pc' = "finish"
            /\ UNCHANGED <<bi, rih_frames, pooh_frames>>
       ELSE /\ pc' = "loop"
            /\ bi' = bi + 1
            /\ IF new_rows_for_mode = <<>>
               THEN UNCHANGED <<rih_frames, pooh_frames>>
               ELSE IF run_plan[bi].mode = RIH_MODE
                    THEN /\ rih_frames' = Append(rih_frames, new_rows_for_mode)
                         /\ UNCHANGED pooh_frames
                    ELSE /\ pooh_frames' = Append(pooh_frames, new_rows_for_mode)
                         /\ UNCHANGED rih_frames
    /\ UNCHANGED <<inputs, start_index, cancel_event, run_plan, total_rows,
                   current_mode, parameter_value_cache, table_len, idx,
                   new_rows_for_mode, emitted, done_outputs, ops, hist,
                   surface,
                   planVars, bridgeVars, gridVars, skeletonVars, guiVars>>

\* lines 148-152: concatenate the frames of each mode and emit done
Finish ==
    /\ pc = "finish"
    /\ done_outputs' = [RIH |-> Flatten(rih_frames), POOH |-> Flatten(pooh_frames)]
    /\ emitted' = Append(emitted, Event("done", -1, ""))
    /\ pc' = "exited"
    /\ UNCHANGED <<inputs, start_index, cancel_event, run_plan, total_rows, bi,
                   current_mode, parameter_value_cache, table_len, idx,
                   new_rows_for_mode, rih_frames, pooh_frames, ops, hist,
                   surface,
                   planVars, bridgeVars, gridVars, skeletonVars, guiVars>>

\* does the step the worker is about to take call the automation bridge?
StepTouchesSurface ==
    \/ pc \in {"setup", "configure", "open_matrix", "close_matrix", "calc",
               "collect"}
    \/ /\ pc = "depth"
       /\ UpdateTouchesSurface("BHA Depth", run_plan[bi].depth_values, TRUE,
                               parameter_value_cache)
    \/ /\ pc = "density"
       /\ run_plan[bi].include_pipe_density
       /\ UpdateTouchesSurface("Pipe Fluid Density",
                               inputs.pipe_fluid_densities, TRUE,
                               parameter_value_cache)
    \/ /\ pc = "foe"
       /\ run_plan[bi].include_force_on_end

\* the list being loaded by the step at pc, and the values handed to it
LoadingCaption ==
    IF pc = "depth" THEN "BHA Depth"
    ELSE IF pc = "density" THEN "Pipe Fluid Density"
    ELSE foe_caption(run_plan[bi].mode)

LoadingValues ==
    IF pc = "depth" THEN run_plan[bi].depth_values
    ELSE IF pc = "density" THEN inputs.pipe_fluid_densities
    ELSE foe_values_of(inputs, run_plan[bi].mode)

\* the value lists of the application once the step at pc has failed: a
\* failed list load leaves any of its partial lists, a failed setup may or
\* may not have loaded the template, any other step leaves the lists alone
FailedSurfaces ==
    IF pc \in {"depth", "density", "foe"}
    THEN { [surface EXCEPT ![LoadingCaption] = l] :
             l \in PartialLists(surface[LoadingCaption], LoadingValues) }
    ELSE IF pc = "setup"
    THEN {surface} \cup { [k \in SurfaceKeys |-> l] : l \in TemplateLists }
    ELSE {surface}

\* a bridge call fails for good (_run_automation_command gives up and
\* _raise_subprocess_error raises RuntimeError): run_scan is left by the
\* exception
BridgeFailure ==
    /\ StepTouchesSurface
    /\ pc' = "raised"
    /\ hist' = Failed(hist, Len(ops))
    /\ surface' \in FailedSurfaces
    /\ UNCHANGED <<inputs, start_index, cancel_event, run_plan, total_rows, bi,
                   current_mode, parameter_value_cache, table_len, idx,
                   new_rows_for_mode, rih_frames, pooh_frames, emitted,
                   done_outputs, ops, planVars, bridgeVars, gridVars, skeletonVars, guiVars>>

\* faulty variant: the worker reports the failed run as finished
WorkerCatch_reports_done ==
    /\ pc = "raised"
    /\ emitted' = Append(emitted, Event("done", -1, ""))
    /\ pc' = "exited"
    /\ UNCHANGED <<inputs, start_index, cancel_event, run_plan, total_rows, bi,
                   current_mode, parameter_value_cache, table_len, idx,
                   new_rows_for_mode, rih_frames, pooh_frames, done_outputs,
                   ops, hist, surface,
                   planVars, bridgeVars, gridVars, skeletonVars, guiVars>>

\* the worker of CerberusApp._start_worker: any exception leaving run_scan
\* is reported as an error event
WorkerCatch ==
    /\ pc = "raised"
    /\ emitted' = Append(emitted, Event("error", -1, ""))
    /\ pc' = "exited"
    /\ UNCHANGED <<inputs, start_index, cancel_event, run_plan, total_rows, bi,
                   current_mode, parameter_value_cache, table_len, idx,
                   new_rows_for_mode, rih_frames, pooh_frames, done_outputs,
                   ops, hist, surface,
                   planVars, bridgeVars, gridVars, skeletonVars, guiVars>>

Next ==
    \/ StartWorker
    \/ Stop
    \/ RunScanBegin
    \/ Setup
    \/ LoopExit
    \/ LoopSkip
    \/ BatchBegin
    \/ ConfigureMode
    \/ OpenMatrix
    \/ UpdateDepth
    \/ UpdateDensity
    \/ UpdateFoe
    \/ CloseMatrix
    \/ Calculate
    \/ Collect
    \/ RowStep
    \/ RowsExhausted
    \/ AfterRows
    \/ Finish
    \/ BridgeFailure
    \/ WorkerCatch

Spec == Init /\ [][Next]_vars

(***************************************************************************)
(* The automation bridge: invoke_button, set_button_value, collect_table   *)
(* and the retry loop _run_automation_command they share                   *)
(***************************************************************************)
max_attempts == 2

BridgeFunctions == {"invoke_button", "set_button_value", "collect_table"}
ButtonKeys == {"cmdCalc", "grdSensitivityData"}

\* the action= text each function hands to _run_automation_command
action_of(fn) ==
    IF fn = "invoke_button" THEN "invoke"
    ELSE IF fn = "set_button_value" THEN "set value on"
    ELSE "collect table for"

\* last line of the stripped stdout of a completed command: nothing, text
\* that is not JSON, JSON that is not an object, an object without the two
\* keys, and two tables
Payloads ==
    {"", "garbage", "[]", "{}", "{Headers:[h],Rows:[[1]]}",
     "{Headers:[h],Rows:[[2]]}"}

\* stderr captured from a failed attempt
DiagTexts == {"window not found", "control is disabled"}

\* what one subprocess.run can do: complete, exceed the timeout, exit with a
\* non-zero code, or fail to start
Outcomes ==
    { [kind |-> "completed", text |-> t] : t \in Payloads }
    \cup { [kind |-> k, text |-> t] : k \in {"timeout", "exit"}, t \in DiagTexts }
    \cup { [kind |-> "oserror", text |-> ""] }

RunEntry(o) == [step |-> "run", outcome |-> o, wait |-> 0]
SleepEntry(w) == [step |-> "sleep", outcome |-> [kind |-> "", text |-> ""], wait |-> w]

\* line 50: min(2.0, 0.5 * attempt), in tenths of a second
backoff_wait(attempt) == Min(20, 5 * attempt)

\* faulty variant: the first failure is already final
GivesUp_at_first_failure(attempt) == attempt >= 1

\* faulty variant: one more attempt than max_attempts is made
GivesUp_one_attempt_late(attempt) == attempt > max_attempts

\* line 47: attempt >= max_attempts
GivesUp(attempt) == attempt >= max_attempts

\* _raise_subprocess_error: the RuntimeError built from ONE exception, the
\* one handed over: its message names the action and the key and carries
\* that exception's captured output
_raise_subprocess_error(action, button_key, exc) ==
    [kind |-> "raised", type |-> "RuntimeError", action |-> action,
     button_key |-> button_key, diagnostics |-> {exc.text},
     cause |-> exc.kind]

RaisedOther(type, fn, button_key) ==
    [kind |-> "raised", type |-> type, action |-> action_of(fn),
     button_key |-> button_key, diagnostics |-> {}, cause |-> ""]

Returned(value) == [kind |-> "returned", value |-> value]

\* json.loads on the payload
json_loads(payload) ==
    IF payload = "garbage" THEN [ok |-> FALSE, object |-> FALSE, keys |-> {},
                                 Headers |-> <<>>, Rows |-> <<>>]
    ELSE IF payload = "[]" THEN [ok |-> TRUE, object |-> FALSE, keys |-> {},
                                 Headers |-> <<>>, Rows |-> <<>>]
    ELSE IF payload = "{}" THEN [ok |-> TRUE, object |-> TRUE, keys |-> {},
                                 Headers |-> <<>>, Rows |-> <<>>]
    ELSE IF payload = "{Headers:[h],Rows:[[1]]}"
         THEN [ok |-> TRUE, object |-> TRUE, keys |-> {"Headers", "Rows"},
               Headers |-> <<"h">>, Rows |-> << <<"1">> >>]
    ELSE [ok |-> TRUE, object |-> TRUE, keys |-> {"Headers", "Rows"},
          Headers |-> <<"h">>, Rows |-> << <<"2">> >>]

\* collect_table lines 190-201: what is made of the completed command
table_of(payload, button_key) ==
    IF payload = ""
    THEN Returned([Headers |-> <<>>, Rows |-> <<>>])
    ELSE LET parsed == json_loads(payload)
         IN IF ~parsed.ok
            THEN [kind |-> "raised", type |-> "RuntimeError",
                  action |-> "parse table payload for",
                  button_key |-> button_key, diagnostics |-> {payload},
                  cause |-> "JSONDecodeError"]
            ELSE IF ~parsed.object
            THEN RaisedOther("AttributeError", "collect_table", button_key)
            ELSE Returned([Headers |-> parsed.Headers, Rows |-> parsed.Rows])

BridgeCalls ==
    { [fn |-> f, button_key |-> k, exe_exists |-> e] :
        f \in BridgeFunctions, k \in ButtonKeys, e \in BOOLEAN }

InitBridge ==
    /\ GuiIdle
    /\ SkeletonIdle
    /\ GridIdle
    /\ ScanIdle
    /\ PlanIdle
    /\ br_pc = "called"
    /\ br_call \in BridgeCalls
    /\ br_attempt = 0
    /\ br_log = <<>>
    /\ br_completed = NoBridgeValue
    /\ br_result = NoBridgeValue

\* lines 105-107, 138-140, 169-171: the helper executable must exist
CheckExe ==
    /\ br_pc = "called"
    /\ IF br_call.exe_exists
       THEN /\ br_pc' = "run"
            /\ UNCHANGED br_result
       ELSE /\ br_pc' = "raised"
            /\ br_result' = RaisedOther("FileNotFoundError", br_call.fn,
                                        br_call.button_key)
    /\ UNCHANGED <<br_call, br_attempt, br_log, br_completed, planVars, scanVars, gridVars, skeletonVars, guiVars>>

\* _run_automation_command lines 36-52: one turn of the while loop, the
\* external command run once and what the except clause does with a failure
RunCommand ==
    /\ br_pc = "run"
    /\ \E o \in Outcomes :
         LET ran == Append(br_log, RunEntry(o))
             attempt == br_attempt + 1
         IN IF o.kind = "completed"
            THEN /\ br_log' = ran
                 /\ UNCHANGED br_attempt
                 /\ IF br_call.fn = "collect_table"
                    THEN /\ br_completed' = o
                         /\ br_pc' = "parse"
                         /\ UNCHANGED br_result
                    ELSE /\ br_result' = Returned(o)
                         /\ br_pc' = "returned"
                         /\ UNCHANGED br_completed
            ELSE IF o.kind = "oserror"
            THEN /\ br_log' = ran
                 /\ br_result' = RaisedOther("OSError", br_call.fn,
                                             br_call.button_key)
                 /\ br_pc' = "raised"
                 /\ UNCHANGED <<br_attempt, br_completed>>
            ELSE /\ br_attempt' = attempt
                 /\ UNCHANGED br_completed
                 /\ IF GivesUp(attempt)
                    THEN /\ br_log' = ran
                         /\ br_result' = _raise_subprocess_error(
                                             action_of(br_call.fn),
                                             br_call.button_key, o)
                         /\ br_pc' = "raised"
                    ELSE /\ br_log' = Append(ran, SleepEntry(backoff_wait(attempt)))
                         /\ UNCHANGED <<br_result, br_pc>>
    /\ UNCHANGED <<br_call, planVars, scanVars, gridVars, skeletonVars, guiVars>>

\* collect_table lines 190-201
ParsePayload ==
    /\ br_pc = "parse"
    /\ br_result' = table_of(br_completed.text, br_call.button_key)
    /\ br_pc' = br_result'.kind
    /\ UNCHANGED <<br_call, br_attempt, br_log, br_completed, planVars, scanVars, gridVars, skeletonVars, guiVars>>

NextBridge == CheckExe \/ RunCommand \/ ParsePayload

SpecBridge == InitBridge /\ [][NextBridge]_vars

\* subprocess.run returns or raises (it is given a timeout), and the code
\* between two runs does not block for ever
SpecBridgeLive == SpecBridge /\ WF_vars(NextBridge)

(***************************************************************************)
(* The grid builders: SensitivityInputs.from_rows (orchestrator) and       *)
(* _build_parameter_grid (skeleton), applied to a row list and to a        *)
(* permutation of it.  Two of the columns are modelled (density, depth);   *)
(* both builders treat every column with the same code.  A cell is a       *)
(* number, None (an empty cell) or NaN (the text "nan", which float()      *)
(* accepts).                                                               *)
(***************************************************************************)
Num(v) == [kind |-> "num", v |-> v]
NaN == [kind |-> "nan", v |-> 0]
None == [kind |-> "none", v |-> 0]
Cells == {None, NaN, Num(1), Num(2)}
IsNum(c) == c.kind = "num"

GridColumns == {"pipe_fluid_density", "depth"}
InputRows == [GridColumns -> Cells]
RowLists == UNION { [1..n -> InputRows] : n \in 0..MaxRows }

Reorderings(s) ==
    { [i \in 1..Len(s) |-> s[q[i]]] :
        q \in { f \in [1..Len(s) -> 1..Len(s)] :
                   \A i, j \in 1..Len(s) : f[i] = f[j] => i = j } }

Column(rows, column) == [i \in 1..Len(rows) |-> rows[i][column]]

\* Python's == and < on two float objects; every NaN cell is its own object,
\* so neither identity nor equality ever matches a NaN
py_eq(a, b) == IsNum(a) /\ IsNum(b) /\ a.v = b.v
py_lt(a, b) == IsNum(a) /\ IsNum(b) /\ a.v < b.v

\* from_rows.append_unique (inputs.py lines 30-34)
append_unique(target, value) ==
    IF value = None THEN target
    ELSE IF \E i \in 1..Len(target) : py_eq(target[i], value) THEN target
    ELSE Append(target, value)

RECURSIVE AppendLoop(_, _, _)
AppendLoop(series, k, target) ==
    IF k > Len(series) THEN target
    ELSE AppendLoop(series, k + 1, append_unique(target, series[k]))

\* list.sort on fewer than 64 items: the leading run (reversed when strictly
\* descending), then binary insertion of the remaining items
RECURSIVE RunEnd(_, _, _)
RunEnd(a, i, descending) ==
    IF i <= Len(a) /\ (py_lt(a[i], a[i - 1]) <=> descending)
    THEN RunEnd(a, i + 1, descending)
    ELSE i - 1

ReversePrefix(a, n) ==
    [i \in 1..Len(a) |-> IF i <= n THEN a[n + 1 - i] ELSE a[i]]

RECURSIVE BinarySearch(_, _, _, _)
BinarySearch(a, pivot, l, r) ==
    LET p == l + ((r - l) \div 2)
        l2 == IF py_lt(pivot, a[p + 1]) THEN l ELSE p + 1
        r2 == IF py_lt(pivot, a[p + 1]) THEN p ELSE r
    IN IF l2 < r2 THEN BinarySearch(a, pivot, l2, r2) ELSE l2

RECURSIVE binarysort(_, _)
binarysort(a, start) ==
    IF start > Len(a) THEN a
    ELSE LET pivot == a[start]
             l == BinarySearch(a, pivot, 0, start - 1)
             moved == [i \in 1..Len(a) |->
                         IF i <= l THEN a[i]
                         ELSE IF i = l + 1 THEN pivot
                         ELSE IF i <= start THEN a[i - 1]
                         ELSE a[i]]
         IN binarysort(moved, start + 1)

sorted(a) ==
    IF Len(a) < 2 THEN a
    ELSE LET descending == py_lt(a[2], a[1])
             run == RunEnd(a, 3, descending)
             head == IF descending THEN ReversePrefix(a, run) ELSE a
         IN binarysort(head, run + 1)

from_rows(rows) ==
    [error |-> FALSE,
     pipe_fluid_density |->
         sorted(AppendLoop(Column(rows, "pipe_fluid_density"), 1, <<>>)),
     depth |-> sorted(AppendLoop(Column(rows, "depth"), 1, <<>>))]

\* pandas: dropna() drops None and NaN alike, unique() keeps the first
\* occurrence of each value in the order of appearance
dropna(series) == SelectSeq(series, IsNum)

RECURSIVE unique(_)
unique(series) ==
    IF series = <<>> THEN <<>>
    ELSE LET front == unique(SubSeq(series, 1, Len(series) - 1))
             last == series[Len(series)]
         IN IF \E i \in 1..Len(front) : front[i] = last THEN front
            ELSE Append(front, last)

_unique_non_null(series) ==
    LET values == unique(dropna(series))
    IN [error |-> values = <<>>, values |-> values]

\* _build_parameter_grid on the frame of the rows: ValueError as soon as a
\* column has no value
frame_grid(rows) ==
    LET densities == _unique_non_null(Column(rows, "pipe_fluid_density"))
        depths == _unique_non_null(Column(rows, "depth"))
    IN IF densities.error \/ depths.error
       THEN [error |-> TRUE, pipe_fluid_density |-> <<>>, depth |-> <<>>]
       ELSE [error |-> FALSE, pipe_fluid_density |-> densities.values,
             depth |-> depths.values]

InitGrid ==
    /\ GuiIdle
    /\ SkeletonIdle
    /\ ScanIdle
    /\ PlanIdle
    /\ BridgeIdle
    /\ grid_pc = "input"
    /\ grid_builder \in {"from_rows", "frame"}
    /\ grid_rows \in RowLists
    /\ grid_permuted \in Reorderings(grid_rows)
    /\ grid_result = [rows |-> NoGrid, permuted |-> NoGrid]

BuildFromRows ==
    /\ grid_pc = "input"
    /\ grid_builder = "from_rows"
    /\ grid_result' = [rows |-> from_rows(grid_rows),
                       permuted |-> from_rows(grid_permuted)]
    /\ grid_pc' = "built"
    /\ UNCHANGED <<grid_builder, grid_rows, grid_permuted, planVars, scanVars,
                   bridgeVars, skeletonVars, guiVars>>

BuildFrameGrid ==
    /\ grid_pc = "input"
    /\ grid_builder = "frame"
    /\ grid_result' = [rows |-> frame_grid(grid_rows),
                       permuted |-> frame_grid(grid_permuted)]
    /\ grid_pc' = "built"
    /\ UNCHANGED <<grid_builder, grid_rows, grid_permuted, planVars, scanVars,
                   bridgeVars, skeletonVars, guiVars>>

NextGrid == BuildFromRows \/ BuildFrameGrid

SpecGrid == InitGrid /\ [][NextGrid]_vars

(***************************************************************************)
(* The skeleton's scans: run_automation called by CerberusEngine.run_scan, *)
(* one call after the other in the same process.  _VALUE_LIST_CACHE is a   *)
(* module global: it is created when Automation.py is imported and lives   *)
(* as long as the process.                                                 *)
(***************************************************************************)
InitSkeleton ==
    /\ GuiIdle
    /\ ScanIdle
    /\ PlanIdle
    /\ BridgeIdle
    /\ GridIdle
    /\ sk_pc = "idle"
    /\ sk_scan = 0
    /\ sk_inputs = NoInputs
    /\ sk_start_index = 0
    /\ sk_bi = 1
    /\ _VALUE_LIST_CACHE = [k \in CacheKeys |-> <<>>]
    /\ \E l \in TemplateLists : sk_surface = [k \in CacheKeys |-> l]
    /\ sk_hist = NoSkeletonHistory

\* CerberusApp._start_worker and CerberusEngine.run_scan: the next scan is
\* started once the previous one has returned or raised
SkeletonStart ==
    /\ sk_pc \in {"idle", "returned", "raised"}
    /\ sk_scan < MaxScans
    /\ sk_scan' = sk_scan + 1
    /\ sk_inputs' \in SkeletonInputs
    /\ sk_start_index' \in SkeletonStartIndexes(sk_inputs')
    /\ sk_bi' = 1
    /\ sk_pc' = "plan"
    /\ sk_hist' = [sk_hist EXCEPT !.rows = {}]
    /\ UNCHANGED <<_VALUE_LIST_CACHE, sk_surface, planVars, scanVars,
                   bridgeVars, gridVars, guiVars>>

\* run_automation lines 141-142: run_rih, run_pooh
SkeletonPlan ==
    /\ sk_pc = "plan"
    /\ sk_pc' = IF planned_batches(sk_inputs).error THEN "raised" ELSE "open"
    /\ UNCHANGED <<sk_scan, sk_inputs, sk_start_index, sk_bi, _VALUE_LIST_CACHE, sk_surface,
                   sk_hist, planVars, scanVars, bridgeVars, gridVars, guiVars>>

\* line 145: button_Sensitivity_Analysis
SkeletonOpen ==
    /\ sk_pc = "open"
    /\ sk_pc' = "prepare"
    /\ UNCHANGED <<sk_scan, sk_inputs, sk_start_index, sk_bi, _VALUE_LIST_CACHE, sk_surface,
                   sk_hist, planVars, scanVars, bridgeVars, gridVars, guiVars>>

\* lines 150 and 161: _prepare_rih_mode, _prepare_pooh_mode
SkeletonPrepare ==
    /\ sk_pc = "prepare"
    /\ sk_pc' = "wizard"
    /\ UNCHANGED <<sk_scan, sk_inputs, sk_start_index, sk_bi, _VALUE_LIST_CACHE, sk_surface,
                   sk_hist, planVars, scanVars, bridgeVars, gridVars, guiVars>>

\* _update_parameter_matrix line 290: Parameter_Matrix_Wizard
SkeletonWizard ==
    /\ sk_pc = "wizard"
    /\ sk_pc' = "depth"
    /\ UNCHANGED <<sk_scan, sk_inputs, sk_start_index, sk_bi, _VALUE_LIST_CACHE, sk_surface,
                   sk_hist, planVars, scanVars, bridgeVars, gridVars, guiVars>>

\* _apply_value_list line 313: the load is skipped when the cache holds the
\* same tuple
CacheHit(cache, cache_key, values) == cache[cache_key] = values

\* faulty variant: the cache is never consulted
CacheHit_never(cache, cache_key, values) == FALSE

\* _apply_value_list lines 304-320: skip on a cache hit; else select the row,
\* Clear_Value_List (every item deleted), Populate_Value_List, OK, and only
\* then the cache entry
_apply_value_list(cache_key, values, next_pc) ==
    /\ IF CacheHit(_VALUE_LIST_CACHE, cache_key, values)
       THEN /\ sk_hist' =
                  IF sk_hist.loaded_in[cache_key] < sk_scan
                  THEN [sk_hist EXCEPT !.stale_skips = @ \cup
                           {[scan |-> sk_scan, key |-> cache_key,
                             loaded_in |-> sk_hist.loaded_in[cache_key]]}]
                  ELSE sk_hist
            /\ UNCHANGED <<_VALUE_LIST_CACHE, sk_surface>>
       ELSE /\ sk_surface' = [sk_surface EXCEPT ![cache_key] = values]
            /\ _VALUE_LIST_CACHE' =
                  [_VALUE_LIST_CACHE EXCEPT ![cache_key] = values]
            /\ sk_hist' = [sk_hist EXCEPT !.loaded_in[cache_key] = sk_scan]
    /\ sk_pc' = next_pc
    /\ UNCHANGED <<sk_scan, sk_inputs, sk_start_index, sk_bi, planVars, scanVars, bridgeVars,
                   gridVars, guiVars>>

\* the batch run_automation is executing
sk_batch == planned_batches(sk_inputs).batches[sk_bi]

\* _update_parameter_matrix lines 292-299
SkeletonApplyDepth ==
    /\ sk_pc = "depth"
    /\ _apply_value_list("depth", sk_batch.parameters.depth, "density")

SkeletonApplyDensity ==
    /\ sk_pc = "density"
    /\ _apply_value_list("density", sk_batch.parameters.density, "wob")

SkeletonApplyWob ==
    /\ sk_pc = "wob"
    /\ _apply_value_list(wob_key(sk_batch.mode), sk_batch.parameters.wob, "ok")

\* _update_parameter_matrix line 301: Sensitivity_Parameter_ok
SkeletonParameterOk ==
    /\ sk_pc = "ok"
    /\ sk_pc' = "calc"
    /\ UNCHANGED <<sk_scan, sk_inputs, sk_start_index, sk_bi, _VALUE_LIST_CACHE, sk_surface,
                   sk_hist, planVars, scanVars, bridgeVars, gridVars, guiVars>>

\* _execute_batch line 273: Sensitivity_Analysis_Calculate
SkeletonCalculate ==
    /\ sk_pc = "calc"
    /\ sk_pc' = "table"
    /\ UNCHANGED <<sk_scan, sk_inputs, sk_start_index, sk_bi, _VALUE_LIST_CACHE, sk_surface,
                   sk_hist, planVars, scanVars, bridgeVars, gridVars, guiVars>>

\* _execute_batch line 274 and the loops of run_automation: the table is
\* read, then the next batch (prepared first when its mode is new) or the
\* return; after the return CerberusEngine.run_scan (lines 38-57) emits
\* init, the rows from start_index on (the flag is not set) and done
SkeletonTable ==
    /\ sk_pc = "table"
    /\ LET batches == planned_batches(sk_inputs).batches
       IN IF sk_bi = Len(batches)
          THEN /\ sk_pc' = "returned"
               /\ sk_hist' = [sk_hist EXCEPT !.rows =
                     { i \in 0..(sk_end_offset(batches, sk_bi) - 1) :
                         i >= sk_start_index }]
               /\ UNCHANGED sk_bi
          ELSE /\ sk_bi' = sk_bi + 1
               /\ sk_pc' = IF batches[sk_bi + 1].mode # batches[sk_bi].mode
                           THEN "prepare" ELSE "wizard"
               /\ UNCHANGED sk_hist
    /\ UNCHANGED <<sk_scan, sk_inputs, sk_start_index, _VALUE_LIST_CACHE,
                   sk_surface, planVars, scanVars, bridgeVars, gridVars,
                   guiVars>>

\* the key and the values of the load the skeleton is about to perform
sk_loading_key ==
    IF sk_pc = "depth" THEN "depth"
    ELSE IF sk_pc = "density" THEN "density"
    ELSE wob_key(sk_batch.mode)

sk_loading_values ==
    IF sk_pc = "depth" THEN sk_batch.parameters.depth
    ELSE IF sk_pc = "density" THEN sk_batch.parameters.density
    ELSE sk_batch.parameters.wob

\* the lists a failing _apply_value_list may leave: the old list or what is
\* left of it while Clear_Value_List deletes, then the first k values added
InterruptedLists(list, values) ==
    { SubSeq(list, j, Len(list)) : j \in 1..(Len(list) + 1) }
    \cup { SubSeq(values, 1, k) : k \in 0..Len(values) }

\* an automation call of the step at sk_pc raises: the exception leaves
\* run_automation; the cache keeps its entries
SkeletonFailure ==
    /\ sk_pc \in {"open", "prepare", "wizard", "depth", "density", "wob", "ok",
                  "calc", "table"}
    /\ IF sk_pc \in {"depth", "density", "wob"}
       THEN /\ ~CacheHit(_VALUE_LIST_CACHE, sk_loading_key, sk_loading_values)
            /\ \E l \in InterruptedLists(sk_surface[sk_loading_key],
                                         sk_loading_values) :
                  sk_surface' = [sk_surface EXCEPT ![sk_loading_key] = l]
       ELSE UNCHANGED sk_surface
    /\ sk_pc' = "raised"
    /\ UNCHANGED <<sk_scan, sk_inputs, sk_start_index, sk_bi, _VALUE_LIST_CACHE, sk_hist,
                   planVars, scanVars, bridgeVars, gridVars, guiVars>>

NextSkeleton ==
    \/ SkeletonStart
    \/ SkeletonPlan
    \/ SkeletonOpen
    \/ SkeletonPrepare
    \/ SkeletonWizard
    \/ SkeletonApplyDepth
    \/ SkeletonApplyDensity
    \/ SkeletonApplyWob
    \/ SkeletonParameterOk
    \/ SkeletonCalculate
    \/ SkeletonTable
    \/ SkeletonFailure

SpecSkeleton == InitSkeleton /\ [][NextSkeleton]_vars

(***************************************************************************)
(* The GUI: CerberusApp's Run, Resume and Stop buttons, its event queue    *)
(* and the worker threads it starts.  A worker is run_scan as the GUI sees *)
(* it: the events it puts on the queue and the stretches in which it       *)
(* operates the application.  Every planned batch holds one row.           *)
(***************************************************************************)
\* CerberusApp.__init__ lines 55-59 and 77-78
InitGui ==
    /\ ScanIdle
    /\ PlanIdle
    /\ BridgeIdle
    /\ GridIdle
    /\ SkeletonIdle
    /\ gui_pc = "idle"
    /\ worker_thread = 0
    /\ gui_workers = [w \in WorkerIds |-> Unborn]
    /\ event_queue = <<>>
    /\ gui_cancel_event = FALSE
    /\ controls_enabled = TRUE
    /\ results_data = 0
    /\ gui_hist = NoGuiHistory

otherVars == <<planVars, scanVars, bridgeVars, gridVars, skeletonVars>>

\* threading.Thread.is_alive
is_alive(w) == gui_workers[w].pc \notin {"unborn", "dead"}

\* _start_worker line 281: self.worker_thread and self.worker_thread.is_alive()
WorkerRunning(thread) == thread # 0 /\ is_alive(thread)

\* faulty variant: the guard is missing
WorkerRunning_unguarded(thread) == FALSE

\* _start_worker lines 280-305, for the start_index of the button pressed;
\* a press that only shows a message box changes nothing
_start_worker(start) ==
    /\ gui_pc = "idle"
    /\ controls_enabled
    /\ IF WorkerRunning(worker_thread)
       THEN UNCHANGED <<worker_thread, gui_workers, gui_cancel_event,
                        results_data>>
       ELSE \E data \in GuiInputs :
               IF data.rows = 0
               THEN UNCHANGED <<worker_thread, gui_workers, gui_cancel_event,
                                results_data>>
               ELSE /\ \E w \in WorkerIds :
                          /\ gui_workers[w].pc = "unborn"
                          /\ \A v \in WorkerIds :
                                v < w => gui_workers[v].pc # "unborn"
                          /\ gui_workers' = [gui_workers EXCEPT ![w] =
                                 [pc |-> "begin", start_index |-> start,
                                  total |-> data.total, bi |-> 1]]
                          /\ worker_thread' = w
                    /\ results_data' = IF start = 0 THEN 0 ELSE results_data
                    /\ gui_cancel_event' = FALSE
    /\ UNCHANGED <<gui_pc, event_queue, controls_enabled, gui_hist, otherVars>>

\* lines 307-308
ClickRun == _start_worker(0)

\* lines 310-311
ClickResume == _start_worker(results_data)

\* faulty variant: Stop sets the flag whether or not a worker is alive
ClickStop_unguarded ==
    /\ gui_pc = "idle"
    /\ ~controls_enabled
    /\ gui_cancel_event' = TRUE
    /\ UNCHANGED <<gui_pc, worker_thread, gui_workers, event_queue,
                   controls_enabled, results_data, gui_hist, otherVars>>

\* _stop lines 313-316; the Stop button is enabled while the others are not
ClickStop ==
    /\ gui_pc = "idle"
    /\ ~controls_enabled
    /\ WorkerRunning(worker_thread)
    /\ gui_cancel_event' = TRUE
    /\ UNCHANGED <<gui_pc, worker_thread, gui_workers, event_queue,
                   controls_enabled, results_data, gui_hist, otherVars>>

\* queue.Queue.put, through _enqueue_event (line 230) and ProgressReporter
put(q, events) == q \o events

\* an event of worker w; index is the global index of a row, 0 otherwise
GuiEvent(type, w, index) == [event |-> type, worker |-> w, index |-> index]

\* worker w emits the events and goes on at next_pc
Emit(w, events, next_pc) ==
    /\ event_queue' = put(event_queue, events)
    /\ gui_hist' = [gui_hist EXCEPT !.pending = @ \o events]
    /\ gui_workers' = [gui_workers EXCEPT ![w].pc = next_pc]

\* worker w moves to next_pc without emitting
Goto(w, next_pc) ==
    /\ gui_workers' = [gui_workers EXCEPT ![w].pc = next_pc]
    /\ UNCHANGED <<event_queue, gui_hist>>

\* run_scan lines 76-95: no plan raises (and the except clause of worker(),
\* lines 301-302, emits error), a no-op resume emits init and done, else init
WorkerBegin(w) ==
    /\ gui_workers[w].pc = "begin"
    /\ IF gui_workers[w].total = 0
       THEN Emit(w, <<GuiEvent("error", w, 0)>>, "exit")
       ELSE IF ResumeIsNoop(gui_workers[w].start_index, gui_workers[w].total)
       THEN Emit(w, <<GuiEvent("init", w, 0), GuiEvent("done", w, 0)>>, "exit")
       ELSE Emit(w, <<GuiEvent("init", w, 0)>>, "setup")
    /\ UNCHANGED <<gui_pc, worker_thread, gui_cancel_event, controls_enabled,
                   results_data, otherVars>>

\* lines 96-97: the worker has opened the workspace and loaded the template
WorkerSetup(w) ==
    /\ gui_workers[w].pc = "setup"
    /\ Goto(w, "loop")
    /\ UNCHANGED <<gui_pc, worker_thread, gui_cancel_event, controls_enabled,
                   results_data, otherVars>>

\* lines 101-105 and 148-152: the head of the loop over the batches (batch
\* bi ends at offset bi); leaving the loop emits done
WorkerLoop(w) ==
    /\ gui_workers[w].pc = "loop"
    /\ LET me == gui_workers[w]
       IN IF me.bi > me.total \/ gui_cancel_event
          THEN Emit(w, <<GuiEvent("done", w, 0)>>, "exit")
          ELSE IF me.start_index >= me.bi
          THEN /\ gui_workers' = [gui_workers EXCEPT ![w].bi = @ + 1]
               /\ UNCHANGED <<event_queue, gui_hist>>
          ELSE Goto(w, "batch")
    /\ UNCHANGED <<gui_pc, worker_thread, gui_cancel_event, controls_enabled,
                   results_data, otherVars>>

\* lines 107-146: the worker has configured, loaded, calculated and
\* collected; the row of the batch is emitted unless the flag is set, and
\* the flag is read again at the head of the loop
WorkerBatch(w) ==
    /\ gui_workers[w].pc = "batch"
    /\ LET row == GuiEvent("row", w, gui_workers[w].bi - 1)
       IN /\ event_queue' = IF gui_cancel_event THEN event_queue
                            ELSE put(event_queue, <<row>>)
          /\ gui_hist' = IF gui_cancel_event THEN gui_hist
                         ELSE [gui_hist EXCEPT !.pending = Append(@, row)]
    /\ gui_workers' = [gui_workers EXCEPT ![w].pc = "loop", ![w].bi = @ + 1]
    /\ UNCHANGED <<gui_pc, worker_thread, gui_cancel_event, controls_enabled,
                   results_data, otherVars>>

\* a bridge call of the setup or of the batch raises; the except clause of
\* worker(), lines 301-302, emits error
WorkerFail(w) ==
    /\ gui_workers[w].pc \in {"setup", "batch"}
    /\ Emit(w, <<GuiEvent("error", w, 0)>>, "exit")
    /\ UNCHANGED <<gui_pc, worker_thread, gui_cancel_event, controls_enabled,
                   results_data, otherVars>>

\* worker() returns: the thread is no longer alive, its locals are gone
WorkerExit(w) ==
    /\ gui_workers[w].pc = "exit"
    /\ gui_workers' = [gui_workers EXCEPT ![w] = Dead]
    /\ UNCHANGED <<gui_pc, worker_thread, event_queue, gui_cancel_event,
                   controls_enabled, results_data, gui_hist, otherVars>>

\* faulty variant: the newest event is taken first
get_nowait_newest(q) == [item |-> q[Len(q)], rest |-> SubSeq(q, 1, Len(q) - 1)]

\* queue.Queue.get_nowait on a queue that is not empty
get_nowait(q) == [item |-> Head(q), rest |-> Tail(q)]

IsPrefix(s, t) ==
    Len(s) <= Len(t) /\ \A i \in 1..Len(s) : s[i] = t[i]

\* what the handlers of _process_queue write, and the events handled
GuiState ==
    [controls_enabled |-> controls_enabled, results_data |-> results_data,
     worker_thread |-> worker_thread, cancel_event |-> gui_cancel_event,
     handled |-> <<>>]

\* faulty variant: an error event leaves the controls disabled
handle_event_error_keeps_controls(g, item) ==
    LET handled == Append(g.handled, item)
    IN IF item.event = "init"
       THEN [g EXCEPT !.controls_enabled = FALSE, !.handled = handled]
       ELSE IF item.event = "row"
       THEN [g EXCEPT !.results_data = @ + 1, !.handled = handled]
       ELSE IF item.event = "error"
       THEN [g EXCEPT !.worker_thread = 0, !.cancel_event = FALSE,
                      !.handled = handled]
       ELSE [g EXCEPT !.controls_enabled = TRUE, !.worker_thread = 0,
                      !.cancel_event = FALSE, !.handled = handled]

\* _process_queue lines 238-247 with _handle_row_event, _handle_done and
\* _handle_error: one event handled
handle_event(g, item) ==
    LET handled == Append(g.handled, item)
    IN IF item.event = "init"
       THEN [g EXCEPT !.controls_enabled = FALSE, !.handled = handled]
       ELSE IF item.event = "row"
       THEN [g EXCEPT !.results_data = @ + 1, !.handled = handled]
       ELSE [g EXCEPT !.controls_enabled = TRUE, !.worker_thread = 0,
                      !.cancel_event = FALSE, !.handled = handled]

\* lines 233-237: the while loop runs until the queue is empty
RECURSIVE drain(_, _)
drain(g, q) ==
    IF q = <<>> THEN g
    ELSE LET got == get_nowait(q)
         IN drain(handle_event(g, got.item), got.rest)

\* _process_queue lines 232-248, every 100 ms: one callback of the GUI
\* thread, in which no button can be pressed; a poll of an empty queue
\* changes nothing
_process_queue ==
    /\ gui_pc = "idle"
    /\ event_queue # <<>>
    /\ LET g == drain(GuiState, event_queue)
       IN /\ controls_enabled' = g.controls_enabled
          /\ results_data' = g.results_data
          /\ worker_thread' = g.worker_thread
          /\ gui_cancel_event' = g.cancel_event
          /\ gui_hist' =
                [pending |-> IF Len(g.handled) <= Len(gui_hist.pending)
                             THEN SubSeq(gui_hist.pending, Len(g.handled) + 1,
                                         Len(gui_hist.pending))
                             ELSE <<>>,
                 in_order |-> gui_hist.in_order
                              /\ IsPrefix(g.handled, gui_hist.pending)]
    /\ event_queue' = <<>>
    /\ UNCHANGED <<gui_pc, gui_workers, otherVars>>

NextGui ==
    \/ ClickRun
    \/ ClickResume
    \/ ClickStop
    \/ _process_queue
    \/ \E w \in WorkerIds : WorkerBegin(w)
    \/ \E w \in WorkerIds : WorkerSetup(w)
    \/ \E w \in WorkerIds : WorkerLoop(w)
    \/ \E w \in WorkerIds : WorkerBatch(w)
    \/ \E w \in WorkerIds : WorkerFail(w)
    \/ \E w \in WorkerIds : WorkerExit(w)

SpecGui == InitGui /\ [][NextGui]_vars

(***************************************************************************)
(* Observations used by the properties                                     *)
(***************************************************************************)
IsRow(e) == e.type = "row"
RowEvents == SelectSeq(emitted, IsRow)
RowIndexes == [i \in 1..Len(RowEvents) |-> RowEvents[i].index]
RowIndexesOfMode(mode) ==
    LET OfMode(e) == e.type = "row" /\ e.mode = mode
        sel == SelectSeq(emitted, OfMode)
    IN [i \in 1..Len(sel) |-> sel[i].index]

Terminal(e) == e.type \in {"done", "error"}
InitEmitted == emitted # <<>> /\ emitted[1].type = "init"
EndedWith(type) ==
    pc = "exited" /\ emitted # <<>> /\ emitted[Len(emitted)].type = type

\* the integers from..to as a sequence
Interval(from, to) == [i \in 1..(to - from + 1) |-> from + i - 1]

\* every table read so far held exactly one row per combination of its batch
TablesMatchPlan ==
    \A i \in 1..Len(hist.collected) :
        hist.collected[i].len = run_plan[hist.collected[i].bi].combo_count

\* the row events a fully processed batch b with a table of n rows produces
BatchRowEvents(b, n) ==
    LET first == Max(start_index, run_plan[b].offset)
        last == run_plan[b].offset + n - 1
    IN [i \in 1..(last - first + 1) |->
          Event("row", first + i - 1, run_plan[b].mode)]

\* the last batch that may have been started, given where the flag was set
LastBatchBeforeCancel ==
    IF hist.cancel_pc \in {"begin", "setup", "loop"}
    THEN hist.cancel_bi - 1 ELSE hist.cancel_bi

(***************************************************************************)
(* C1: the original statement. Every run that emits an event emits exactly *)
(* one init first, then row events with strictly increasing global index,  *)
(* then exactly one terminal event (done or error) last, and nothing after *)
(* the terminal event.                                                     *)
(***************************************************************************)
C1_EventOrder ==
    emitted # <<>> =>
        /\ emitted[1].type = "init"
        /\ \A i \in 2..Len(emitted) : emitted[i].type # "init"
        /\ \A i \in 1..(Len(emitted) - 1) : ~Terminal(emitted[i])
        /\ \A i \in 1..(Len(emitted) - 1) :
              (IsRow(emitted[i]) /\ IsRow(emitted[i + 1]))
                  => emitted[i].index < emitted[i + 1].index
        /\ pc = "exited" => Terminal(emitted[Len(emitted)])

(***************************************************************************)
(* C2: the original statement. For non-empty dimensions and a capacity of  *)
(* at least 1, no planned batch holds more combinations than the capacity, *)
(* also when densities x force-on-end alone exceeds it.                    *)
(***************************************************************************)
C2_BatchWithinCapacity ==
    (plan_pc = "planned" /\ plan_capacity >= 1) =>
        /\ \A i \in 1..Len(plan_result.run_plan) :
              plan_result.run_plan[i].combo_count <= plan_capacity
        /\ \A mode \in {"RIH", "POOH"} :
              \A i \in 1..Len(plan_result[mode].batches) :
                 Len(plan_result[mode].batches[i].combinations) <= plan_capacity

(***************************************************************************)
(* C3: for every grid and every capacity of at least 1, the combinations   *)
(* of a mode's planned batches, concatenated in emission order, hold every *)
(* tuple of density x depth x force-on-end of that mode exactly once; for  *)
(* the run plan, whose batches carry only their depth slice, the slices of *)
(* a mode concatenated are the depth list.                                 *)
(***************************************************************************)
FullProduct(inp, mode) ==
    { [density |-> inp.pipe_fluid_densities[d], depth |-> inp.depths[z],
       wob |-> foe_values_of(inp, mode)[w]] :
        d \in 1..Len(inp.pipe_fluid_densities), z \in 1..Len(inp.depths),
        w \in 1..Len(foe_values_of(inp, mode)) }

AllCombinations(mode) ==
    Flatten([b \in 1..Len(plan_result[mode].batches) |->
               plan_result[mode].batches[b].combinations])

DepthSlicesOfMode(mode) ==
    LET OfMode(p) == p.mode = mode
        sel == SelectSeq(plan_result.run_plan, OfMode)
    IN Flatten([b \in 1..Len(sel) |-> sel[b].depth_values])

C3_BatchesCoverProduct ==
    (plan_pc = "planned" /\ plan_capacity >= 1) =>
        \A mode \in {"RIH", "POOH"} :
           /\ (plan_engine = "automation" /\ ~plan_result[mode].error) =>
                 LET all == AllCombinations(mode)
                 IN /\ SeqToSet(all) = FullProduct(plan_inputs, mode)
                    /\ Len(all) = Cardinality(FullProduct(plan_inputs, mode))
           /\ (plan_engine = "orchestrator"
               /\ \E i \in 1..Len(plan_result.run_plan) :
                     plan_result.run_plan[i].mode = mode) =>
                 DepthSlicesOfMode(mode) = plan_inputs.depths

\* a mode of the skeleton planner, and one of the run plan, cut into batches
C3_Witness ==
    /\ plan_pc = "planned"
    /\ plan_capacity >= 1
    /\ \/ /\ plan_engine = "automation"
          /\ ~plan_result.RIH.error
          /\ Len(plan_result.RIH.batches) >= 3
       \/ /\ plan_engine = "orchestrator"
          /\ Len(plan_result.run_plan) >= 2
          /\ plan_result.run_plan[1].mode = plan_result.run_plan[2].mode

(***************************************************************************)
(* C4: for every input that yields a plan, the offsets of the planned      *)
(* batches are strictly increasing, the first is 0, and the last batch's   *)
(* offset + combo_count is the total_rows carried by the init event.       *)
(***************************************************************************)
C4_OffsetsAndTotal ==
    InitEmitted =>
        /\ run_plan # <<>>
        /\ run_plan[1].offset = 0
        /\ \A i \in 1..(Len(run_plan) - 1) :
              run_plan[i].offset < run_plan[i + 1].offset
        /\ end_offset(run_plan[Len(run_plan)]) = emitted[1].index

C4_Witness ==
    /\ InitEmitted
    /\ Len(run_plan) >= 2
    /\ run_plan[2].offset > 1


(***************************************************************************)
(* C5: the original statement. For a resume offset strictly inside a       *)
(* batch's range, a run that is neither cancelled nor failed emits row     *)
(* events whose global indices are exactly start_index .. total_rows - 1,  *)
(* each once and in order, and the containing batch is still populated,    *)
(* calculated and collected in full.                                       *)
(***************************************************************************)
ResumeInsideBatch(b) ==
    /\ b \in 1..Len(run_plan)
    /\ run_plan[b].offset < start_index
    /\ start_index < end_offset(run_plan[b])

ContainingBatchExecuted(b) ==
    /\ \E i \in 1..Len(ops) : ops[i] = Op("open_parameter_matrix", b)
    /\ \E i \in 1..Len(ops) :
          ops[i] = LoadOp("BHA Depth", run_plan[b].depth_values, b)
    /\ \E i \in 1..Len(ops) : ops[i] = Op("calculate", b)
    /\ \E i \in 1..Len(ops) : ops[i] = Op("collect_table", b)

NoBatchStartedAfterCancel ==
    hist.cancel_set =>
        /\ \A b \in hist.started : b <= LastBatchBeforeCancel
        /\ \A i \in 1..Len(ops) : ops[i].bi <= LastBatchBeforeCancel

BatchProcessed(b) ==
    \/ b < bi
    \/ b = bi /\ pc \in {"after_rows", "finish", "exited"}

C8_NoMidBatchCancel ==
    \A i \in 1..Len(hist.collected) :
       LET c == hist.collected[i]
       IN (c.len > 0 /\ BatchProcessed(c.bi)) =>
             \A g \in run_plan[c.bi].offset..(run_plan[c.bi].offset + c.len - 1) :
                g >= start_index =>
                   \E k \in 1..Len(emitted) :
                      emitted[k] = Event("row", g, run_plan[c.bi].mode)

(***************************************************************************)
(* C9: in a two-batch plan, setting the cancellation flag after the first  *)
(* batch (its rows emitted, the second batch not yet started) results in   *)
(* exactly the first batch's rows being emitted, a done event as the       *)
(* terminal event, and an empty output collection for the second mode.     *)
(***************************************************************************)
CancelledAfterFirstBatch ==
    /\ Len(run_plan) = 2
    /\ 1 \in hist.started
    /\ hist.cancel_set
    /\ \/ hist.cancel_pc = "loop" /\ hist.cancel_bi = 2
       \/ hist.cancel_pc = "after_rows" /\ hist.cancel_bi = 1

C9_CancelAfterFirstBatch ==
    (CancelledAfterFirstBatch /\ pc = "exited") =>
        /\ Len(hist.collected) = 1
        /\ emitted = <<Event("init", total_rows, "")>>
                     \o BatchRowEvents(1, hist.collected[1].len)
                     \o <<Event("done", -1, "")>>
        /\ run_plan[2].mode # run_plan[1].mode
              => done_outputs[run_plan[2].mode] = <<>>
        /\ \A i \in 1..Len(ops) : ops[i].bi # 2

\* both modes planned, the flag set between the RIH and the POOH batch
C9_Witness ==
    /\ CancelledAfterFirstBatch
    /\ hist.cancel_pc = "loop"
    /\ pc = "exited"
    /\ run_plan[1].mode = "RIH"
    /\ run_plan[2].mode = "POOH"
    /\ Len(RowIndexes) >= 2

(***************************************************************************)
(* C10: the original statement. Every row emitted as a row event is also   *)
(* kept in its mode's output: at done, for each mode, the global indices   *)
(* of the mode's output collection are the global indices of the row       *)
(* events emitted for that mode, in the same order, on normal completion   *)
(* and on cancellation.                                                    *)
(***************************************************************************)
C10_EmittedRowsAccumulated ==
    EndedWith("done") =>
        \A mode \in {"RIH", "POOH"} :
           done_outputs[mode] = RowIndexesOfMode(mode)

(***************************************************************************)
(* C11: once init has been emitted, a failure of a bridge operation or of  *)
(* the collection of the result table makes the run emit exactly one error *)
(* event and no done event, and no operation is performed after the        *)
(* failing one, neither for the rest of the failing batch nor for a later  *)
(* batch.                                                                  *)
(***************************************************************************)
IsError(e) == e.type = "error"
IsDone(e) == e.type = "done"

C11_FailureEndsWithError ==
    (hist.failed /\ InitEmitted) =>
        /\ pc \in {"raised", "exited"}
        /\ SelectSeq(emitted, IsDone) = <<>>
        /\ Len(ops) = hist.fail_ops
        /\ pc = "raised" =>
              /\ Len(emitted) = hist.fail_emitted
              /\ SelectSeq(emitted, IsError) = <<>>
        /\ pc = "exited" =>
              /\ Len(emitted) = hist.fail_emitted + 1
              /\ Len(SelectSeq(emitted, IsError)) = 1
              /\ EndedWith("error")

\* the calculation of the second batch failed after the first batch's rows
C11_Witness ==
    /\ hist.failed
    /\ hist.fail_bi = 2
    /\ hist.fail_pc = "calc"
    /\ pc = "exited"
    /\ RowEvents # <<>>

(***************************************************************************)
(* C12: when a run is aborted by a failure while it executes batch k, the  *)
(* rows emitted, and the rows kept in the frames of the modes, are exactly *)
(* the rows at or above the resume offset of the tables of the batches     *)
(* completed before k, in order; no row of batch k or of a later batch is  *)
(* emitted.                                                                *)
(***************************************************************************)
CollectedBefore(k) ==
    LET Before(c) == c.bi < k
    IN SelectSeq(hist.collected, Before)

RowsOfBatchesBefore(k) ==
    LET done == CollectedBefore(k)
    IN Flatten([i \in 1..Len(done) |-> BatchRowEvents(done[i].bi, done[i].len)])

C12_AbortKeepsCompletedBatches ==
    (hist.failed /\ hist.fail_pc # "setup") =>
        /\ RowEvents = RowsOfBatchesBefore(hist.fail_bi)
        /\ Flatten(rih_frames) = RowIndexesOfMode("RIH")
        /\ Flatten(pooh_frames) = RowIndexesOfMode("POOH")

\* a resumed run that emitted the tail of batch 1 and failed in batch 2
C12_Witness ==
    /\ hist.failed
    /\ hist.fail_bi = 2
    /\ hist.fail_pc \in {"open_matrix", "collect"}
    /\ start_index = 1
    /\ RowEvents # <<>>
    /\ rih_frames # <<>>
    /\ pc = "exited"

(***************************************************************************)
(* C17: planning yields no batch exactly when every mode lacks a non-empty *)
(* required dimension (densities, depths, the mode's force-on-end values); *)
(* the run then raises the no-valid-combinations error to its caller       *)
(* before any progress event is emitted (no init) and before any operation *)
(* against the external surface.                                           *)
(***************************************************************************)
ModeHasAllDimensions(inp, mode) ==
    /\ inp.pipe_fluid_densities # <<>>
    /\ inp.depths # <<>>
    /\ foe_values_of(inp, mode) # <<>>

NoModePlannable(inp) ==
    \A mode \in {RIH_MODE, POOH_MODE} : ~ModeHasAllDimensions(inp, mode)

\* run_scan has been entered and has passed its planning step
PlanningDone == pc \notin {"idle", "begin"}

C17_NoBatchRaisesBeforeInit ==
    PlanningDone =>
        /\ (run_plan = <<>>) <=> NoModePlannable(inputs)
        /\ NoModePlannable(inputs) =>
              /\ pc \in {"raised", "exited"}
              /\ ops = <<>>
              /\ SelectSeq(emitted, IsError) = emitted
              /\ pc = "raised" => emitted = <<>>
              /\ ~hist.failed

\* densities and depths given, no force-on-end value for either mode
C17_Witness ==
    /\ pc = "raised"
    /\ run_plan = <<>>
    /\ inputs.pipe_fluid_densities # <<>>
    /\ inputs.depths # <<>>

(***************************************************************************)
(* C18: when the table collected after a calculation is empty, the scan    *)
(* fails at that batch: the run ends with an error and never with done, no *)
(* row event is emitted for the batch, the calculation is triggered once   *)
(* for it and not again, and no operation of a later batch is performed.   *)
(***************************************************************************)
CalculationsOf(b) ==
    LET IsCalc(o) == o.op = "calculate" /\ o.bi = b
    IN Len(SelectSeq(ops, IsCalc))

IsSetupOp(o) == o.op \in {"open_sensitivity_analysis", "load_template"}

\* no operation reaches the surface before init is emitted
SurfaceUntouchedBeforeInit == ops # <<>> => InitEmitted

IsConfigureOp(o) ==
    o.op \in {"configure_parameters_for_mode", "configure_outputs_for_mode"}

OpsOfBatch(b) ==
    LET OfBatch(o) == o.bi = b
    IN SelectSeq(ops, OfBatch)

ConfigureOpsOf(b) == SelectSeq(OpsOfBatch(b), IsConfigureOp)

\* the batch executed last before batch b, 0 when there is none
PreviousExecuted(b) ==
    LET earlier == { x \in hist.started : x < b }
    IN IF earlier = {} THEN 0
       ELSE CHOOSE x \in earlier : \A y \in earlier : y <= x

ModeChangesAt(b) ==
    \/ PreviousExecuted(b) = 0
    \/ run_plan[PreviousExecuted(b)].mode # run_plan[b].mode

\* batch b has got past the point where its mode is configured
PastConfiguration(b) ==
    \E i \in 1..Len(ops) : ops[i] = Op("open_parameter_matrix", b)

C20_ConfigureOnlyOnModeChange ==
    \A b \in 1..Len(run_plan) :
       /\ ConfigureOpsOf(b) # <<>> =>
             /\ b \in hist.started
             /\ ModeChangesAt(b)
             /\ ConfigureOpsOf(b) = <<Op("configure_parameters_for_mode", b),
                                      Op("configure_outputs_for_mode", b)>>
             /\ SubSeq(OpsOfBatch(b), 1, 2) = ConfigureOpsOf(b)
       /\ (b \in hist.started /\ PastConfiguration(b)) =>
             (ModeChangesAt(b) <=> ConfigureOpsOf(b) # <<>>)

\* two consecutive batches of one mode were executed: the first was
\* configured, the second was not
C20_Witness ==
    /\ {1, 2} \subseteq hist.started
    /\ run_plan[1].mode = run_plan[2].mode
    /\ ConfigureOpsOf(1) # <<>>
    /\ ConfigureOpsOf(2) = <<>>
    /\ PastConfiguration(2)
    /\ EndedWith("done")

(***************************************************************************)
(* Observations of a bridge call                                           *)
(***************************************************************************)
IsRun(entry) == entry.step = "run"
IsSleep(entry) == entry.step = "sleep"
Runs == SelectSeq(br_log, IsRun)
Transient(o) == o.kind \in {"timeout", "exit"}
BridgeCallOver == br_pc \in {"returned", "raised"}

(***************************************************************************)
(* C13: a bridge operation (invoke, set value, collect table) whose first  *)
(* attempt fails with a timeout or a non-zero exit code and whose second   *)
(* attempt completes hands back the second attempt's result: the first     *)
(* failure raises nothing, invoke and set value return the second          *)
(* attempt's completed process, collect_table returns the table of the     *)
(* second attempt's payload, and no error of the failed attempt reaches    *)
(* the caller.                                                             *)
(***************************************************************************)
TransientThenCompleted ==
    /\ Len(Runs) = 2
    /\ Transient(Runs[1].outcome)
    /\ Runs[2].outcome.kind = "completed"

C13_RetryReturnsSecondResult ==
    /\ (Len(Runs) = 1 /\ Transient(Runs[1].outcome)) =>
          /\ br_pc = "run"
          /\ br_result = NoBridgeValue
    /\ TransientThenCompleted =>
          LET second == Runs[2].outcome
          IN /\ br_pc \in {"parse", "returned", "raised"}
             /\ br_result.kind = "raised" => ~Transient([kind |-> br_result.cause])
             /\ br_call.fn # "collect_table" =>
                   /\ br_pc = "returned"
                   /\ br_result = Returned(second)
             /\ br_call.fn = "collect_table" =>
                   /\ br_completed = second
                   /\ (BridgeCallOver /\ json_loads(second.text).object
                         /\ second.text # "") =>
                         br_result = Returned(
                            [Headers |-> json_loads(second.text).Headers,
                             Rows |-> json_loads(second.text).Rows])

\* collect_table timed out once and then returned the table of its second run
C13_Witness ==
    /\ TransientThenCompleted
    /\ Runs[1].outcome.kind = "timeout"
    /\ br_call.fn = "collect_table"
    /\ br_pc = "returned"
    /\ br_result.value.Rows = << <<"2">> >>

(***************************************************************************)
(* C14: the original statement. A bridge operation that fails on both      *)
(* attempts raises a bridge error that names the action and the target     *)
(* control key and carries the diagnostic text of the first and of the     *)
(* second failed attempt.                                                  *)
(***************************************************************************)
FailedTwice ==
    /\ Len(Runs) = 2
    /\ Transient(Runs[1].outcome)
    /\ Transient(Runs[2].outcome)

C14_ErrorCarriesBothAttempts ==
    FailedTwice =>
        /\ br_pc = "raised"
        /\ br_result.type = "RuntimeError"
        /\ br_result.action = action_of(br_call.fn)
        /\ br_result.button_key = br_call.button_key
        /\ {Runs[1].outcome.text, Runs[2].outcome.text}
              \subseteq br_result.diagnostics

(***************************************************************************)
(* C15: every bridge operation terminates, having run the external command *)
(* at most two times: it returns a result or raises an error; it sleeps    *)
(* only between a failed attempt and the attempt that follows, and never   *)
(* after the last failed attempt.                                          *)
(***************************************************************************)
SleepsOnlyBetweenAttempts ==
    \A i \in 1..Len(br_log) :
       IsSleep(br_log[i]) =>
          /\ i > 1
          /\ IsRun(br_log[i - 1])
          /\ Transient(br_log[i - 1].outcome)
          /\ IF i < Len(br_log) THEN IsRun(br_log[i + 1]) ELSE br_pc = "run"

BridgeBounded ==
    /\ Len(Runs) <= 2
    /\ SleepsOnlyBetweenAttempts
    /\ BridgeCallOver =>
          /\ br_result.kind = br_pc
          /\ br_log # <<>> => IsRun(br_log[Len(br_log)])

C15_TerminatesWithinTwoRuns == []BridgeBounded /\ <>BridgeCallOver

\* both attempts failed: run, sleep, run, and the error raised at once
C15_Witness ==
    /\ FailedTwice
    /\ br_pc = "raised"
    /\ Len(br_log) = 3
    /\ IsSleep(br_log[2])
    /\ br_log[2].wait = 5

(***************************************************************************)
(* C16: the original statement. When the external command of collect_table *)
(* completes but its response is empty or not structurally valid,          *)
(* collect_table fails at once with a protocol error: the command is run   *)
(* exactly once and no table, not even an empty one, is returned.          *)
(***************************************************************************)
StructurallyValid(payload) ==
    /\ payload # ""
    /\ json_loads(payload).ok
    /\ json_loads(payload).object
    /\ {"Headers", "Rows"} \subseteq json_loads(payload).keys

C16_InvalidResponseFails ==
    (/\ br_call.fn = "collect_table"
     /\ Runs # <<>>
     /\ Runs[1].outcome.kind = "completed"
     /\ ~StructurallyValid(Runs[1].outcome.text)) =>
        /\ Len(Runs) = 1
        /\ br_pc \in {"parse", "raised"}
        /\ br_pc = "raised" => br_result.kind = "raised"

(***************************************************************************)
(* C21: a mode whose density, depth or mode-specific force-on-end list is  *)
(* empty is skipped: the planner emits no batch for it and raises no error *)
(* because of it, while the other mode, when all its lists are non-empty,  *)
(* is still planned.                                                       *)
(***************************************************************************)
PlannedFor(mode) ==
    IF plan_engine = "orchestrator"
    THEN \E i \in 1..Len(plan_result.run_plan) :
            plan_result.run_plan[i].mode = mode
    ELSE plan_result[mode].batches # <<>>

\* the capacity the planner worked with is usable
UsableCapacity ==
    plan_engine = "orchestrator" \/ plan_result.max_batch_size >= 1

C21_EmptyModeSkipped ==
    (plan_pc = "planned" /\ UsableCapacity) =>
        \A mode \in {"RIH", "POOH"} :
           /\ ~ModeHasAllDimensions(plan_inputs, mode) =>
                 /\ ~PlannedFor(mode)
                 /\ ~plan_result[mode].error
           /\ ModeHasAllDimensions(plan_inputs, mode) => PlannedFor(mode)

(***************************************************************************)
(* C23: planning with a max_batch_size that is zero or negative fails with *)
(* a configuration error and emits no batch; the planner never works with  *)
(* another capacity than the non-positive one it was given.                *)
(***************************************************************************)
C23_NonPositiveCapacityFails ==
    (plan_pc = "planned" /\ plan_engine \in {"automation", "engine"}
     /\ plan_capacity <= 0) =>
        /\ plan_result.max_batch_size = plan_capacity
        /\ \A mode \in {"RIH", "POOH"} :
              /\ plan_result[mode].error
              /\ plan_result[mode].batches = <<>>

(***************************************************************************)
(* C24: densities {8, 10, 12}, depths {3500, 4000}, RIH force-on-end       *)
(* {0, -1500}, no POOH force-on-end and a capacity of 200: planning yields *)
(* exactly one batch, of mode RIH, with 12 combinations, at offset 0.      *)
(***************************************************************************)
ScenarioPlanned ==
    /\ plan_pc = "planned"
    /\ plan_inputs = ScenarioInputs
    /\ \/ plan_engine = "orchestrator"
       \/ plan_engine = "engine_default"

C24_ScenarioYieldsOneBatch ==
    ScenarioPlanned =>
        IF plan_engine = "orchestrator"
        THEN /\ Len(plan_result.run_plan) = 1
             /\ plan_result.run_plan[1].mode = "RIH"
             /\ plan_result.run_plan[1].combo_count = 12
             /\ plan_result.run_plan[1].offset = 0
        ELSE /\ plan_result.max_batch_size = 200
             /\ ~plan_result.RIH.error /\ ~plan_result.POOH.error
             /\ Len(plan_result.RIH.batches) = 1
             /\ Len(plan_result.RIH.batches[1].combinations) = 12
             /\ plan_result.POOH.batches = <<>>

(***************************************************************************)
(* C22: for every row list, the grid builder's sequence for each dimension *)
(* holds no value twice, and the rows in any other order give the same     *)
(* sequences, value for value and position for position.                   *)
(***************************************************************************)
NoDuplicate(seq) ==
    \A i, j \in 1..Len(seq) : seq[i] = seq[j] => i = j

C22_GridDedupedOrderFree ==
    grid_pc = "built" =>
        /\ grid_result.rows.error = grid_result.permuted.error
        /\ \A column \in GridColumns :
              /\ NoDuplicate(grid_result.rows[column])
              /\ grid_result.rows[column] = grid_result.permuted[column]

\* the same claim for rows that hold numbers and empty cells only
NoNaNCell ==
    \A i \in 1..Len(grid_rows) : \A column \in GridColumns :
       grid_rows[i][column] # NaN

C22_FromRowsOnNumbers ==
    (grid_pc = "built" /\ grid_builder = "from_rows" /\ NoNaNCell) =>
        \A column \in GridColumns :
           /\ NoDuplicate(grid_result.rows[column])
           /\ grid_result.rows[column] = grid_result.permuted[column]

(***************************************************************************)
(* C28: whenever the calculation has been triggered for a batch, the depth *)
(* list of the application equals the batch's depth slice, the density     *)
(* list equals the grid's densities and the force-on-end list of the       *)
(* batch's mode equals that mode's values, for every resume offset.  The   *)
(* template is taken to hold at most one item per list, which the single   *)
(* Delete of _clear_value_list removes.                                    *)
(***************************************************************************)
TemplateClearable == Len(hist.template) <= 1

C28_ResidentListsMatchBatch ==
    (pc = "collect" /\ TemplateClearable) =>
        /\ surface["BHA Depth"] = run_plan[bi].depth_values
        /\ surface["Pipe Fluid Density"] = inputs.pipe_fluid_densities
        /\ surface[foe_caption(run_plan[bi].mode)] =
              foe_values_of(inputs, run_plan[bi].mode)

(***************************************************************************)
(* C29: within one executed batch the operations occur in the fixed order  *)
(* mode configuration (only on a mode change), depth list, density list,   *)
(* force-on-end list, calculation, collection; no phase occurs twice, and  *)
(* once the calculation is triggered the table is collected next, whatever *)
(* the cancellation flag holds (only a failing bridge call prevents it).   *)
(***************************************************************************)
PhaseRank(o) ==
    IF o.op = "configure_parameters_for_mode" THEN 1
    ELSE IF o.op = "configure_outputs_for_mode" THEN 2
    ELSE IF o.op = "open_parameter_matrix" THEN 3
    ELSE IF o.op = "load" /\ o.key = "BHA Depth" THEN 4
    ELSE IF o.op = "load" /\ o.key = "Pipe Fluid Density" THEN 5
    ELSE IF o.op = "load" THEN 6
    ELSE IF o.op = "close_parameter_matrix" THEN 7
    ELSE IF o.op = "calculate" THEN 8
    ELSE IF o.op = "collect_table" THEN 9
    ELSE 0

BatchOpsInOrder(b) ==
    LET o == OpsOfBatch(b)
    IN /\ \A i \in 1..Len(o) : PhaseRank(o[i]) > 0
       /\ \A i, j \in 1..Len(o) : i < j => PhaseRank(o[i]) < PhaseRank(o[j])

CollectFollowsCalculate(b) ==
    LET o == OpsOfBatch(b)
    IN CalculationsOf(b) >= 1 =>
          \/ o[Len(o)].op = "collect_table"
          \/ pc = "collect" /\ bi = b
          \/ hist.failed /\ hist.fail_bi = b /\ hist.fail_pc = "collect"

C29_FixedOrderWithinBatch ==
    /\ \A k \in 1..Len(ops) : ops[k].bi = 0 \/ ops[k].bi \in hist.started
    /\ \A b \in hist.started :
          /\ BatchOpsInOrder(b)
          /\ CollectFollowsCalculate(b)
          /\ ConfigureOpsOf(b) # <<>> => ModeChangesAt(b)

\* a batch that went through every phase, the flag having been set between
\* its calculation and its collection
C29_Witness ==
    \E b \in hist.started :
       /\ Len(OpsOfBatch(b)) = 9
       /\ hist.cancel_set /\ hist.cancel_pc = "collect" /\ hist.cancel_bi = b
       /\ \E i \in 1..Len(hist.collected) : hist.collected[i].bi = b

(***************************************************************************)
(* C30: whenever the identity cache maps a caption to a value tuple, the   *)
(* application's list for that caption holds exactly that tuple, in every  *)
(* reachable state, also after a bridge failure in the middle of a load.   *)
(* The template is taken to hold at most one item per list.                *)
(***************************************************************************)
C30_CacheMatchesSurface ==
    TemplateClearable =>
        \A k \in DOMAIN parameter_value_cache :
           parameter_value_cache[k] # <<>> =>
              surface[k] = parameter_value_cache[k]

(***************************************************************************)
(* C26: the value-list identity cache is scoped to one scan: it is empty   *)
(* when a scan starts, and no load is skipped because of a tuple that an   *)
(* earlier scan loaded.                                                    *)
(***************************************************************************)
CacheEmpty == \A k \in CacheKeys : _VALUE_LIST_CACHE[k] = <<>>

C26_CacheScopedToScan ==
    /\ sk_pc = "plan" => CacheEmpty
    /\ sk_hist.stale_skips = {}

\* the skeleton's form of C30: an entry of the module-level cache is the
\* list the application holds (violated once a load is interrupted)
SkeletonCacheMatchesSurface ==
    \A k \in CacheKeys :
       _VALUE_LIST_CACHE[k] # <<>> => sk_surface[k] = _VALUE_LIST_CACHE[k]

(***************************************************************************)
(* C25: at any time at most one scan worker is operating the application:  *)
(* a Run or Resume pressed while a scan is in progress starts no second    *)
(* worker, so no two workers are inside their setup or a batch at once.    *)
(***************************************************************************)
OnSurface(w) == gui_workers[w].pc \in {"setup", "batch"}

C25_SingleWorkerOnSurface ==
    Cardinality({ w \in WorkerIds : OnSurface(w) }) <= 1

\* weaker form: no two worker threads are alive at once
AtMostOneAlive == Cardinality({ w \in WorkerIds : is_alive(w) }) <= 1

(***************************************************************************)
(* C27: the consumer handles the progress events in exactly the order the  *)
(* workers emitted them: every poll so far has handled the oldest events   *)
(* not yet handled, oldest first, and the queue holds exactly the emitted  *)
(* events still to be handled, so none is dropped, handled twice or        *)
(* handled before an earlier one.                                          *)
(***************************************************************************)
C27_HandledInEmissionOrder ==
    /\ gui_hist.in_order
    /\ gui_hist.pending = event_queue

\* a scan is over and all it emitted has been handled, a row included
C27_Witness ==
    /\ gui_hist.in_order
    /\ event_queue = <<>>
    /\ results_data >= 1
    /\ \E w \in WorkerIds : gui_workers[w].pc = "dead"
    /\ \A w \in WorkerIds : ~is_alive(w)

(***************************************************************************)
(* C31: a request to load a value list whose tuple equals the tuple last   *)
(* loaded for the same key performs no operation on the application and    *)
(* leaves the cache unchanged; a request with a different tuple clears the *)
(* list, loads the new values in order and records the tuple in the cache. *)
(* The template is taken to hold at most one item per list.                *)
(***************************************************************************)
\* the tuple the scan last loaded into the list of the caption, if any
LastLoaded(caption) ==
    LET OfCaption(o) == o.op = "load" /\ o.key = caption
        sel == SelectSeq(ops, OfCaption)
    IN IF sel = <<>> THEN <<>> ELSE sel[Len(sel)].values

\* the request (caption and values) that the step from pc to next_pc makes
LoadRequests ==
    { [caption |-> "BHA Depth", values |-> run_plan[bi].depth_values,
       from |-> "depth", to |-> "density"] : b \in {bi} }
    \cup { [caption |-> "Pipe Fluid Density",
            values |-> inputs.pipe_fluid_densities,
            from |-> "density", to |-> "foe"] :
              b \in { x \in {bi} : run_plan[x].include_pipe_density } }
    \cup { [caption |-> foe_caption(run_plan[b].mode),
            values |-> foe_values_of(inputs, run_plan[b].mode),
            from |-> "foe", to |-> "close_matrix"] :
              b \in { x \in {bi} : run_plan[x].include_force_on_end } }

\* the request the step completes, if it completes one
RequestsCompleted ==
    IF pc \in {"depth", "density", "foe"}
    THEN { r \in LoadRequests : r.from = pc /\ r.to = pc' }
    ELSE {}

\* an unchanged tuple: nothing happens
SkippedLoad(r) ==
    /\ surface' = surface
    /\ ops' = ops
    /\ parameter_value_cache' = parameter_value_cache

\* a new tuple: the list holds exactly the new values, in their order
ListReplaced(r) == surface'[r.caption] = r.values

\* a new tuple: the cache records it
TupleRecorded(r) ==
    /\ r.caption \in DOMAIN parameter_value_cache'
    /\ parameter_value_cache'[r.caption] = r.values

C31_SkipUnchangedTuple ==
    [][\A r \in RequestsCompleted :
          r.values = LastLoaded(r.caption) => SkippedLoad(r)]_vars

C31_NewTupleReplacesList ==
    [][TemplateClearable =>
         \A r \in RequestsCompleted :
            r.values # LastLoaded(r.caption) => ListReplaced(r)]_vars

C31_NewTupleRecorded ==
    [][\A r \in RequestsCompleted :
          r.values # LastLoaded(r.caption) => TupleRecorded(r)]_vars

C31_LoadOnlyNewTuples ==
    [][TemplateClearable =>
         \A r \in RequestsCompleted :
            IF r.values = LastLoaded(r.caption) THEN SkippedLoad(r)
            ELSE ListReplaced(r) /\ TupleRecorded(r)]_vars

(***************************************************************************)
(* C32: a batch whose whole range lies before the resume offset is skipped *)
(* entirely: no mode configuration, value population, calculation or       *)
(* collection is performed for it and no row event is emitted for it.      *)
(***************************************************************************)
\* the skeleton is working on batch sk_bi (mode preparation included)
SkeletonInBatch ==
    sk_pc \in {"prepare", "wizard", "depth", "density", "wob", "ok", "calc",
               "table"}

\* the batch the skeleton is working on is not one that lies before the
\* resume offset
SkeletonBatchNotSkippable ==
    SkeletonInBatch =>
        sk_end_offset(planned_batches(sk_inputs).batches, sk_bi) > sk_start_index

\* no row before the resume offset is emitted
SkeletonRowsFromResume == \A i \in sk_hist.rows : i >= sk_start_index

C32_SkippedBatchUntouched ==
    /\ SkeletonBatchNotSkippable
    /\ SkeletonRowsFromResume

\* the orchestrator's form: every operation logged for a batch and every row
\* emitted belongs to a batch that ends after the resume offset
OrchestratorSkipsBatchesBeforeResume ==
    /\ \A i \in 1..Len(ops) :
          ops[i].bi >= 1 => end_offset(run_plan[ops[i].bi]) > start_index
    /\ \A b \in hist.started : end_offset(run_plan[b]) > start_index
    /\ \A i \in 1..Len(emitted) :
          emitted[i].type = "row" => emitted[i].index >= start_index

(***************************************************************************)
(* C33: every emitted row event's global index lies inside its batch's     *)
(* half-open range [offset, offset + combo_count), and so below the        *)
(* total_rows announced in init, whatever number of rows the result table  *)
(* of the application holds.                                               *)
(***************************************************************************)
\* the rows emitted for the batch in hand lie in its range
CurrentBatchRowsInRange ==
    pc \in {"rows", "after_rows"} =>
        \A i \in 1..Len(new_rows_for_mode) :
           /\ run_plan[bi].offset <= new_rows_for_mode[i]
           /\ new_rows_for_mode[i] < end_offset(run_plan[bi])

\* every row emitted so far lies below the announced total
RowsBelowTotal == \A i \in 1..Len(RowIndexes) : RowIndexes[i] < total_rows

C33_RowIndexInsideBatch ==
    /\ CurrentBatchRowsInRange
    /\ RowsBelowTotal

\* the same when every table read so far held one row per combination
RowIndexInsideBatchOfFullTables ==
    TablesMatchPlan => C33_RowIndexInsideBatch

(***************************************************************************)
(* C34: the ranges of consecutive planned batches are contiguous and       *)
(* disjoint: each batch but the last ends where the next begins, the first *)
(* begins at 0, so the ranges partition [0, total_rows) without gap or     *)
(* overlap.                                                                *)
(***************************************************************************)
OrchestratorPlanned == plan_pc = "planned" /\ plan_engine = "orchestrator"

\* the batches whose range holds the global index i
BatchesHolding(plan, i) ==
    { b \in 1..Len(plan) : plan[b].offset <= i /\ i < end_offset(plan[b]) }

C34_RangesPartitionTotal ==
    OrchestratorPlanned =>
        LET plan == plan_result.run_plan
        IN plan # <<>> =>
             /\ plan[1].offset = 0
             /\ \A b \in 1..(Len(plan) - 1) :
                   end_offset(plan[b]) = plan[b + 1].offset
             /\ \A i \in 0..(end_offset(plan[Len(plan)]) - 1) :
                   Cardinality(BatchesHolding(plan, i)) = 1

\* a plan of both modes, one of them cut into several depth chunks
C34_Witness ==
    /\ OrchestratorPlanned
    /\ Len(plan_result.run_plan) >= 3
    /\ PlannedFor("RIH")
    /\ PlannedFor("POOH")

(***************************************************************************)
(* C36: for depth_count >= 1 and density_count x foe_count >= 1 the depth  *)
(* chunk size is the largest c in 1..depth_count with density_count x      *)
(* foe_count x c within the batch capacity, and 1 when there is no such c; *)
(* every depth value then appears in exactly one batch of the mode.        *)
(***************************************************************************)
\* the chunk sizes that keep a batch within the capacity
FittingChunks(depth_count, per_depth) ==
    { c \in 1..depth_count : per_depth * c <= MAX_ITERATIONS_PER_RUN }

LargestFittingChunk(depth_count, per_depth) ==
    IF FittingChunks(depth_count, per_depth) = {} THEN 1
    ELSE CHOOSE c \in FittingChunks(depth_count, per_depth) :
            \A x \in FittingChunks(depth_count, per_depth) : x <= c

\* the batches of the plan that belong to the mode
BatchesOfMode(mode) ==
    LET OfMode(p) == p.mode = mode
    IN SelectSeq(plan_result.run_plan, OfMode)

\* how many batches of the mode hold the depth value
BatchesWithDepth(mode, z) ==
    Cardinality({ b \in 1..Len(BatchesOfMode(mode)) :
                    z \in SeqToSet(BatchesOfMode(mode)[b].depth_values) })

PerDepth(mode) ==
    Len(plan_inputs.pipe_fluid_densities)
        * Len(foe_values_of(plan_inputs, mode))

C36_LargestChunkWithinCapacity ==
    OrchestratorPlanned =>
        \A mode \in {"RIH", "POOH"} :
           (Len(plan_inputs.depths) >= 1 /\ PerDepth(mode) >= 1) =>
               LET c == LargestFittingChunk(Len(plan_inputs.depths),
                                            PerDepth(mode))
                   bs == BatchesOfMode(mode)
               IN /\ _compute_depth_chunk(Len(plan_inputs.depths),
                        Len(plan_inputs.pipe_fluid_densities),
                        Len(foe_values_of(plan_inputs, mode))) = c
                  /\ \A b \in 1..(Len(bs) - 1) : Len(bs[b].depth_values) = c
                  /\ bs # <<>>
                  /\ Len(bs[Len(bs)].depth_values) \in 1..c
                  /\ \A z \in SeqToSet(plan_inputs.depths) :
                        BatchesWithDepth(mode, z) = 1

\* density x force on end alone is above the capacity: one depth per batch
C36_Witness ==
    /\ OrchestratorPlanned
    /\ PerDepth("RIH") > MAX_ITERATIONS_PER_RUN
    /\ Len(plan_inputs.depths) >= 2
    /\ Len(BatchesOfMode("RIH")) = Len(plan_inputs.depths)

(***************************************************************************)
(* C37: the density and force-on-end reload flags of a planned batch are   *)
(* true exactly when the batch is the first depth chunk of its mode, and   *)
(* every batch's combo_count is |densities| x |force on end of its mode| x *)
(* |its depth slice|, whatever its flags.                                  *)
(***************************************************************************)
FirstChunkOfMode(plan, b) == b = 1 \/ plan[b - 1].mode # plan[b].mode

C37_ReloadFlagsOnFirstChunk ==
    OrchestratorPlanned =>
        LET plan == plan_result.run_plan
        IN \A b \in 1..Len(plan) :
              /\ plan[b].include_pipe_density = FirstChunkOfMode(plan, b)
              /\ plan[b].include_force_on_end = FirstChunkOfMode(plan, b)
              /\ plan[b].combo_count =
                    PerDepth(plan[b].mode) * Len(plan[b].depth_values)

\* a later chunk of a mode is planned without the flags
C37_Witness ==
    /\ OrchestratorPlanned
    /\ \E b \in 2..Len(plan_result.run_plan) :
          /\ ~FirstChunkOfMode(plan_result.run_plan, b)
          /\ ~plan_result.run_plan[b].include_pipe_density
          /\ plan_result.run_plan[b].combo_count >= 1

\* two depths of the 100-density grid fill the limit exactly
ExactFitPlanned ==
    /\ OrchestratorPlanned
    /\ \E b \in 1..Len(plan_result.run_plan) :
          plan_result.run_plan[b].combo_count = MAX_ITERATIONS_PER_RUN

(***************************************************************************)
(* C35: in the planned batch list every RIH batch precedes every POOH      *)
(* batch, within a mode the depth slices of the batches follow the depth   *)
(* sequence of the grid, and the batches are executed in the order of the  *)
(* list.                                                                   *)
(***************************************************************************)
\* the depth slices of the batches of one mode, in plan order
DepthSlicesOf(plan, mode) ==
    LET OfMode(p) == p.mode = mode
        bs == SelectSeq(plan, OfMode)
    IN [i \in 1..Len(bs) |-> bs[i].depth_values]

RihBeforePooh(plan) ==
    \A a, b \in 1..Len(plan) :
        plan[a].mode = "RIH" /\ plan[b].mode = "POOH" => a < b

DepthSlicesInGridOrder(plan, inp) ==
    \A mode \in {"RIH", "POOH"} :
        DepthSlicesOf(plan, mode) # <<>> =>
            Flatten(DepthSlicesOf(plan, mode)) = inp.depths

\* the operations on the external program, batch after batch
ExecutedInPlanOrder ==
    /\ \A i, j \in 1..Len(ops) : i < j => ops[i].bi <= ops[j].bi
    /\ \A i, j \in 1..Len(hist.collected) :
           i < j => hist.collected[i].bi < hist.collected[j].bi
    /\ \A b \in hist.started : b <= bi

C35_PlanOrderIsExecutionOrder ==
    /\ RihBeforePooh(run_plan)
    /\ DepthSlicesInGridOrder(run_plan, inputs)
    /\ ExecutedInPlanOrder

C35_Witness ==
    /\ pc = "finish"
    /\ Len(run_plan) = 2
    /\ run_plan[1].mode = "RIH"
    /\ run_plan[2].mode = "POOH"
    /\ Len(hist.collected) = 2
    /\ hist.collected[1].bi = 1
    /\ hist.collected[2].bi = 2

\* both depth chunks of the large grid were collected, the first one first
DepthChunksExecutedInOrder ==
    /\ Len(run_plan) = 2
    /\ run_plan[1].mode = "RIH"
    /\ run_plan[2].mode = "RIH"
    /\ Len(hist.collected) = 2
    /\ hist.collected[1].bi = 1

(***************************************************************************)
(* Cancel and resume: a scan started by Run, and after its terminal event  *)
(* was handled one scan started by Resume                                  *)
(***************************************************************************)
\* how many events of the type were emitted
Emissions(type) ==
    Cardinality({ i \in 1..Len(emitted) : emitted[i].type = type })

\* the largest grid, in rows, whose scans are followed through a resume
MaxResumeRows == 4

\* CerberusApp._resume after the scan of Run has ended with done and the
\* queue was drained: _start_worker(len(results_data)) clears the flag and
\* starts a worker, whose run_scan has fresh locals; results_data holds one
\* payload per row event
ResumeScan ==
    /\ pc = "exited"
    /\ total_rows <= MaxResumeRows
    /\ Emissions("init") = 1
    /\ Emissions("error") = 0
    /\ start_index = 0
    /\ start_index' = Len(RowIndexes)
    /\ cancel_event' = FALSE
    /\ pc' = "begin"
    /\ run_plan' = <<>>
    /\ total_rows' = 0
    /\ bi' = 1
    /\ current_mode' = ""
    /\ parameter_value_cache' = [k \in {"BHA Depth", "Pipe Fluid Density"} |-> <<>>]
    /\ table_len' = 0
    /\ idx' = 0
    /\ new_rows_for_mode' = <<>>
    /\ rih_frames' = <<>>
    /\ pooh_frames' = <<>>
    /\ done_outputs' = [RIH |-> <<>>, POOH |-> <<>>]
    /\ ops' = <<>>
    /\ UNCHANGED <<inputs, emitted, hist, surface,
                   planVars, bridgeVars, gridVars, skeletonVars, guiVars>>

NextResume ==
    \/ StartWorker
    \/ Stop
    \/ RunScanBegin
    \/ Setup
    \/ LoopExit
    \/ LoopSkip
    \/ BatchBegin
    \/ ConfigureMode
    \/ OpenMatrix
    \/ UpdateDepth
    \/ UpdateDensity
    \/ UpdateFoe
    \/ CloseMatrix
    \/ Calculate
    \/ Collect
    \/ RowStep
    \/ RowsExhausted
    \/ AfterRows
    \/ Finish
    \/ BridgeFailure
    \/ WorkerCatch
    \/ ResumeScan

SpecResume == Init /\ [][NextResume]_vars

(***************************************************************************)
(* C38: a scan cancelled at any point and resumed at the number of row     *)
(* events received so far emits, over the two runs together, every global  *)
(* index below total_rows exactly once, provided no failure occurs.        *)
(***************************************************************************)
\* the scan of Run was cancelled and ended with done, the scan of Resume has
\* run to its done without being cancelled, nothing has raised
CancelledAndResumed ==
    /\ pc = "exited"
    /\ hist.cancel_set
    /\ ~cancel_event
    /\ Emissions("init") = 2
    /\ Emissions("done") = 2
    /\ Emissions("error") = 0

TimesEmitted(i) ==
    Cardinality({ k \in 1..Len(RowIndexes) : RowIndexes[k] = i })

EveryIndexOnce == \A i \in 0..(total_rows - 1) : TimesEmitted(i) = 1

C38_CancelResumeEmitsEachIndexOnce == CancelledAndResumed => EveryIndexOnce

\* every table read in the two runs held one row per combination of its batch
EveryTableFull ==
    \A i \in 1..Len(hist.collected) :
        hist.collected[i].len =
            _build_run_plan(inputs)[hist.collected[i].bi].combo_count

\* with full tables the two runs emit 0..total_rows-1 in order
CancelResumeOfFullTables ==
    CancelledAndResumed /\ EveryTableFull =>
        RowIndexes = Interval(0, total_rows - 1)

\* the first run was stopped inside a batch, after one of its rows
ResumedInsideBatch ==
    /\ CancelledAndResumed
    /\ EveryTableFull
    /\ \E b \in 1..Len(run_plan) :
          run_plan[b].offset < start_index /\ start_index < end_offset(run_plan[b])

(***************************************************************************)
(* C39: every scan starts with the cancellation flag clear, and a Stop     *)
(* reaches only scans running when it is pressed: the flag is set only     *)
(* while the worker of worker_thread is alive, and no worker alive at that *)
(* moment was started after it, so a Stop pressed for one scan (also one   *)
(* whose terminal event is already queued) never cancels a later scan.     *)
(***************************************************************************)
\* worker w is started by this step
Started(w) == gui_workers[w].pc = "unborn" /\ gui_workers'[w].pc # "unborn"

\* this step sets the cancellation flag
FlagSet == ~gui_cancel_event /\ gui_cancel_event'

ScanStartsWithFlagClear ==
    \A w \in WorkerIds : Started(w) => ~gui_cancel_event'

\* workers are started in the order of their numbers
StopReachesNoLaterScan ==
    FlagSet =>
        /\ WorkerRunning(worker_thread)
        /\ \A w \in WorkerIds : is_alive(w) => w <= worker_thread

C39_StopNeverCancelsLaterScan ==
    [][ScanStartsWithFlagClear /\ StopReachesNoLaterScan]_vars

\* whenever a scan can be started the flag is clear
FlagClearWhenControlsEnabled == controls_enabled => ~gui_cancel_event

InQueue(e) == \E i \in 1..Len(event_queue) : event_queue[i] = e

\* Stop was pressed for a scan that had already emitted its last row: the
\* flag is set, the worker has queued done and is about to return
C39_Witness ==
    /\ gui_cancel_event
    /\ worker_thread # 0
    /\ gui_workers[worker_thread].pc = "exit"
    /\ gui_workers[worker_thread].bi > gui_workers[worker_thread].total
    /\ gui_workers[worker_thread].total >= 1
    /\ InQueue(GuiEvent("row", worker_thread,
                        gui_workers[worker_thread].total - 1))
    /\ InQueue(GuiEvent("done", worker_thread, 0))

\* a scan is running with the flag clear after an earlier scan has ended
LaterScanRunsUncancelled ==
    /\ ~gui_cancel_event
    /\ \E w \in WorkerIds :
          /\ gui_workers[w].pc = "batch"
          /\ \E v \in WorkerIds : v < w /\ gui_workers[v].pc = "dead"

(***************************************************************************)
(* Termination of the scans started from the GUI                           *)
(***************************************************************************)
\* a step of the thread of worker w that no failure interrupts
WorkerStep(w) ==
    \/ WorkerBegin(w)
    \/ WorkerSetup(w)
    \/ WorkerLoop(w)
    \/ WorkerBatch(w)
    \/ WorkerExit(w)

\* every bridge call returns or raises (subprocess.run is given a timeout),
\* so a live thread takes its next step; _process_queue re-arms itself with
\* after(100, ...) and runs again
SpecGuiLive ==
    /\ SpecGui
    /\ \A w \in WorkerIds : WF_vars(WorkerStep(w))
    /\ WF_vars(_process_queue)

(***************************************************************************)
(* C40: every started scan terminates: its worker emits exactly one        *)
(* terminal event (done or error) and nothing after it, the thread ends    *)
(* and the event is handled; handling a terminal event releases the worker *)
(* handle and enables the controls again, and once nothing is running and  *)
(* nothing is queued a new scan can be started.                            *)
(***************************************************************************)
IsTerminal(e) == e.event \in {"done", "error"}

\* the events this step puts on the queue
Emitted ==
    IF Len(event_queue') > Len(event_queue)
    THEN SubSeq(event_queue', Len(event_queue) + 1, Len(event_queue'))
    ELSE <<>>

TerminalsEmitted(w) ==
    Cardinality({ i \in 1..Len(Emitted) :
                    Emitted[i].worker = w /\ IsTerminal(Emitted[i]) })

Over(w) == gui_workers[w].pc \in {"exit", "dead"}

\* the step in which worker w leaves run_scan is the one step in which it
\* emits a terminal event, the last event of the step; afterwards it emits
\* nothing and is never started again
OneTerminalEvent ==
    \A w \in WorkerIds :
        /\ TerminalsEmitted(w) = (IF ~Over(w) /\ Over(w)' THEN 1 ELSE 0)
        /\ TerminalsEmitted(w) = 1 => IsTerminal(Emitted[Len(Emitted)])
        /\ Over(w) => /\ Over(w)'
                      /\ \A i \in 1..Len(Emitted) : Emitted[i].worker # w

\* this step is a poll of _process_queue that handles a terminal event
TerminalHandled ==
    /\ event_queue' = <<>>
    /\ \E i \in 1..Len(event_queue) : IsTerminal(event_queue[i])

\* no init is handled after the last terminal event of the poll
TerminalHandledLast ==
    /\ TerminalHandled
    /\ \A i \in 1..Len(event_queue) :
          event_queue[i].event = "init" =>
              \E j \in (i + 1)..Len(event_queue) : IsTerminal(event_queue[j])

HandlingReleases ==
    /\ TerminalHandled => worker_thread' = 0 /\ ~gui_cancel_event'
    /\ TerminalHandledLast => controls_enabled'

\* a scan is running or an event waits in the queue
GuiBusy == event_queue # <<>> \/ \E w \in WorkerIds : is_alive(w)

\* nothing runs, nothing is queued, Run and Resume are enabled
ReadyForNewScan ==
    /\ ~GuiBusy
    /\ controls_enabled
    /\ worker_thread = 0
    /\ ~gui_cancel_event

\* in ReadyForNewScan every worker that was started has ended and all its
\* events were handled, so the last conjunct covers each scan
C40_EveryScanTerminates ==
    /\ [][OneTerminalEvent /\ HandlingReleases]_vars
    /\ GuiBusy ~> ReadyForNewScan

\* a scan of one batch has delivered its row and ended with done, a scan
\* before it ended with error; everything is handled and released
C40_Witness ==
    /\ ReadyForNewScan
    /\ results_data >= 1
    /\ Cardinality({ w \in WorkerIds : gui_workers[w].pc = "dead" }) >= 2

\* run_scan and the worker around it, followed step by step: no terminal
\* event while the worker is alive, one when it has ended, as the last event
ScanEndsWithOneTerminalEvent ==
    /\ pc # "exited" => Emissions("done") + Emissions("error") = 0
    /\ pc = "exited" =>
          /\ Emissions("done") + Emissions("error") = 1
          /\ Terminal(emitted[Len(emitted)])


====
